---- MODULE Spec2Model ----
(***************************************************************************)
(* A model of the Veil cryptosystem (codahale/veil-rs): the multi-receiver *)
(* streaming encryption (mres), the duplex-bound Schnorr signatures and    *)
(* the hierarchical key derivation of the facade.                          *)
(*                                                                         *)
(* Cryptography is modelled symbolically.  A duplex state is its           *)
(* transcript (the sequence of operations applied to it).  Every byte of   *)
(* output that depends on a duplex state (key stream, tag, squeezed bytes) *)
(* names that state by its index in a table `tbl` of the states the        *)
(* encryptor went through; a party whose own transcript is not in the      *)
(* table gets bytes that match nothing (index 0).  This is the usual       *)
(* perfect-cryptography idealisation: two different transcripts never      *)
(* yield the same key stream, tag or challenge.                            *)
(*                                                                         *)
(* The group is the additive group of integers modulo the prime Order,     *)
(* generated by G = 1; a point is written as its multiple of G.            *)
(*                                                                         *)
(* Lengths are counted in cells.  The length constants keep the names and  *)
(* the order relations of the source (TAG_LEN < SIGNATURE_LEN < BLOCK_LEN) *)
(* at a scale a model checker can enumerate.                               *)
(***************************************************************************)
EXTENDS Integers, Sequences, FiniteSets, Bags, TLC

(***************************************************************************)
(* Program constants (scaled) and model bounds.                            *)
(***************************************************************************)
Order == 5              \* the prime order of the group
TAG_LEN == 1            \* duplex::TAG_LEN (16 in the source)
POINT_LEN == 1          \* keys::POINT_LEN (32 in the source)
SCALAR_LEN == 1         \* keys::SCALAR_LEN (32 in the source)
NONCE_LEN == 2          \* sres::NONCE_LEN (16 in the source)
DEK_LEN == 1            \* mres::DEK_LEN (32 in the source)
U64_LEN == 1            \* mem::size_of::<u64>() (8 in the source)
BLOCK_LEN == 3          \* mres::BLOCK_LEN (32 * 1024 in the source)
USIZE_BITS == 6         \* the width of usize (64 in the source)

SIGNATURE_LEN == POINT_LEN + SCALAR_LEN
ENC_BLOCK_LEN == BLOCK_LEN + TAG_LEN
HEADER_LEN == DEK_LEN + U64_LEN + U64_LEN
SRES_OVERHEAD == POINT_LEN + TAG_LEN
ENC_HEADER_LEN == HEADER_LEN + SRES_OVERHEAD
USIZE_MOD == 2 ^ USIZE_BITS

MaxLen == 7             \* longest plaintext
MaxRecv == 2            \* most receivers (fakes included)
MaxPad == 1             \* most padding

(***************************************************************************)
(* The group.                                                              *)
(***************************************************************************)
Scalars == 0 .. (Order - 1)
NonZero == 1 .. (Order - 1)
G == 1
Mul(d, q) == (d * q) % Order
Add(a, b) == (a + b) % Order
Neg(a) == (Order - a) % Order

(***************************************************************************)
(* Cells.  Every cell is a tuple whose first element names its kind.       *)
(***************************************************************************)
Pt(q) == <<"pt", q>>
Sc(s) == <<"sc", s>>
Num(v) == <<"n", v>>
Zero == <<"zero">>
Junk == <<"junk">>
Flip(c) == IF c[1] = "flip" THEN c[2] ELSE <<"flip", c>>
Take(s, n) == SubSeq(s, 1, IF n < Len(s) THEN n ELSE Len(s))
Drop(s, n) == SubSeq(s, n + 1, Len(s))
Min(a, b) == IF a < b THEN a ELSE b

(***************************************************************************)
(* The duplex.                                                             *)
(***************************************************************************)
Find(tbl, S) ==
    IF \E i \in 1 .. Len(tbl) : tbl[i] = S
    THEN CHOOSE i \in 1 .. Len(tbl) : tbl[i] = S
    ELSE 0
Reg(tbl, S) == IF Find(tbl, S) # 0 THEN tbl ELSE Append(tbl, S)

New(domain) == << <<"init", domain>> >>
Absorb(S, data) == Append(S, <<"absorb", data>>)
SqueezeOut(tbl, S, n) == [i \in 1 .. n |-> <<"sq", Find(tbl, S), i>>]
AfterSqueeze(S, n) == Append(S, <<"squeeze", n>>)
IntoKeyed(S) == << <<"key", S>> >>
KeyWith(S, q) == Append(S, <<"key", Pt(q)>>)

EncCells(id, pt) == [i \in 1 .. Len(pt) |-> <<"enc", id, i, pt[i]>>]
DecCell(id, i, c) ==
    IF id = 0 THEN Junk
    ELSE IF c[1] = "enc" /\ c[2] = id /\ c[3] = i THEN c[4]
    ELSE IF c[1] = "flip" /\ c[2][1] = "enc" /\ c[2][2] = id /\ c[2][3] = i
         THEN Flip(c[2][4])
    ELSE Junk
DecCells(id, ct) == [i \in 1 .. Len(ct) |-> DecCell(id, i, ct[i])]
AfterCrypt(S, ct) == Append(S, <<"crypt", ct>>)
TagCells(id) == [i \in 1 .. TAG_LEN |-> <<"tag", id, i>>]
AfterTag(S) == Append(S, <<"tag">>)
Ratchet(S) == Append(S, <<"ratchet">>)

\* KeyedDuplex::seal: the cipher text of pt under S followed by the tag.
Seal(tbl, S, pt) ==
    LET tb1 == Reg(tbl, S)
        ct == EncCells(Find(tb1, S), pt)
        S1 == AfterCrypt(S, ct)
        tb2 == Reg(tb1, S1)
    IN [tbl |-> tb2, dx |-> AfterTag(S1), out |-> ct \o TagCells(Find(tb2, S1))]

\* KeyedDuplex::unseal: None (ok = FALSE) unless the tag is the one of this
\* state and this cipher text.
Unseal(tbl, S, block) ==
    IF Len(block) < TAG_LEN THEN [ok |-> FALSE, dx |-> S, pt |-> <<>>]
    ELSE LET ct == Take(block, Len(block) - TAG_LEN)
             tag == Drop(block, Len(block) - TAG_LEN)
             S1 == AfterCrypt(S, ct)
             id1 == Find(tbl, S1)
         IN [ok |-> id1 # 0 /\ tag = TagCells(id1),
             dx |-> AfterTag(S1),
             pt |-> DecCells(Find(tbl, S), ct)]

(***************************************************************************)
(* veil.sres: single-receiver signcryption of a header.                    *)
(***************************************************************************)
SresInit(qs, qr, nonce) ==
    Absorb(Absorb(Absorb(New("veil.sres"), <<Pt(qs)>>), <<Pt(qr)>>), nonce)

SresEncrypt(tbl, ds, qs, de, qe, qr, nonce, plaintext) ==
    LET T1 == KeyWith(SresInit(qs, qr, nonce), Mul(ds, qr))
        tb1 == Reg(tbl, T1)
        c1 == EncCells(Find(tb1, T1), <<Pt(qe)>>)
        T2 == KeyWith(AfterCrypt(T1, c1), Mul(de, qr))
        sl == Seal(tb1, T2, plaintext)
    IN [tbl |-> sl.tbl, out |-> c1 \o sl.out]

\* The decoded ephemeral public key: the identity and anything that is not
\* the canonical encoding of a point are refused.
DecodePoint(c) == IF c[1] = "pt" /\ c[2] # 0 THEN c[2] ELSE 0

SresDecrypt(tbl, dr, qr, qs, nonce, ciphertext) ==
    LET T1 == KeyWith(SresInit(qs, qr, nonce), Mul(dr, qs))
        c1 == Take(ciphertext, POINT_LEN)
        qe == DecodePoint(DecCell(Find(tbl, T1), 1, c1[1]))
        T2 == KeyWith(AfterCrypt(T1, c1), Mul(dr, qe))
        us == Unseal(tbl, T2, Drop(ciphertext, POINT_LEN))
    IN IF qe # 0 /\ us.ok
       THEN [ok |-> TRUE, qe |-> qe, pt |-> us.pt]
       ELSE [ok |-> FALSE, qe |-> 0, pt |-> <<>>]

(***************************************************************************)
(* Schnorr signatures bound to a duplex (sign_protocol, verify_protocol).  *)
(* k is the hedged commitment scalar and r the challenge the duplex        *)
(* yields; the signer records the state the challenge was derived from.    *)
(***************************************************************************)
NoScalar == 0 - 1
Fresh == 0 - 2
CHALLENGE_LEN == 1      \* the 16 bytes of the challenge, as one cell

\* A proof scalar that leaves the challenge out.
ProofScalar_NoChallenge(d, r, k) == Add(d, k)
ProofScalar(d, r, k) == Add(Mul(d, r), k)

SignProtocol(tbl, S, d, k, r) ==
    LET tb1 == Reg(tbl, S)
        sig_i == EncCells(Find(tb1, S), <<Pt(Mul(k, G))>>)
        S1 == AfterCrypt(S, sig_i)
        S2 == AfterSqueeze(S1, CHALLENGE_LEN)
        tb2 == Reg(tb1, S2)
        sig_s == EncCells(Find(tb2, S2), <<Sc(ProofScalar(d, r, k))>>)
    IN [tbl |-> tb2, dx |-> AfterCrypt(S2, sig_s), sig |-> sig_i \o sig_s,
        chal |-> [st |-> S1, r |-> r]]

\* The challenge a verifier derives: the signer's when the transcripts
\* agree, otherwise a value unrelated to everything else.
Challenge(chal, S) == IF chal.st = S THEN chal.r ELSE Fresh

\* The values Scalar::decode can return for a decrypted cell: a changed bit
\* gives a non-canonical encoding or another scalar.
DecodeScalar(c) ==
    IF c[1] = "sc" THEN {c[2]}
    ELSE IF c[1] = "flip" /\ c[2][1] = "sc"
         THEN (Scalars \ {c[2][2]}) \cup {NoScalar}
    ELSE Scalars \cup {NoScalar}

\* I' = [s]G - [r']Q, compared with the decrypted commitment in encoded form.
\* A check that does not compare the commitment points.
CommitmentMatches_Unchecked(i, s, rp, q) == rp # Fresh /\ s # NoScalar
CommitmentMatches(i, s, rp, q) ==
    /\ rp # Fresh
    /\ s # NoScalar
    /\ i = Pt(Add(Mul(s, G), Neg(Mul(rp, q))))

\* A verify_protocol that derives the challenge before it decrypts the
\* commitment.
VerifyProtocol_ChallengeFirst(tbl, chal, S, q, sig, pick) ==
    LET rp == Challenge(chal, S)
        S1 == AfterSqueeze(S, CHALLENGE_LEN)
        ci == Take(sig, POINT_LEN)
        i == DecCell(Find(tbl, S1), 1, ci[1])
        S2 == AfterCrypt(S1, ci)
        cs == Drop(sig, POINT_LEN)
        sc == DecCell(Find(tbl, S2), 1, cs[1])
        s == IF pick \in DecodeScalar(sc) THEN pick ELSE NoScalar
    IN [ok |-> CommitmentMatches(i, s, rp, q), dx |-> AfterCrypt(S2, cs),
        cell |-> sc, rp |-> rp]

\* verify_protocol, for the decoding `pick` chooses among DecodeScalar's.
VerifyProtocol(tbl, chal, S, q, sig, pick) ==
    LET ci == Take(sig, POINT_LEN)
        i == DecCell(Find(tbl, S), 1, ci[1])
        S1 == AfterCrypt(S, ci)
        rp == Challenge(chal, S1)
        S2 == AfterSqueeze(S1, CHALLENGE_LEN)
        cs == Drop(sig, POINT_LEN)
        sc == DecCell(Find(tbl, S2), 1, cs[1])
        s == IF pick \in DecodeScalar(sc) THEN pick ELSE NoScalar
    IN [ok |-> CommitmentMatches(i, s, rp, q), dx |-> AfterCrypt(S2, cs),
        cell |-> sc, rp |-> rp]

(***************************************************************************)
(* veil.mres: encryption.                                                  *)
(***************************************************************************)
\* Absorb::absorb_blocks: the reader's bytes, absorbed block by block.
RECURSIVE AbsorbBlocks(_, _)
AbsorbBlocks(S, data) ==
    LET n == Min(Len(data), BLOCK_LEN)
        S1 == Absorb(S, Take(data, n))
    IN IF n < BLOCK_LEN THEN S1 ELSE AbsorbBlocks(S1, Drop(data, n))

Plaintext(len) == [j \in 1 .. len |-> <<"m", j>>]
RandomBytes(n) == [j \in 1 .. n |-> <<"rnd", j>>]
HedgedDek == [j \in 1 .. DEK_LEN |-> <<"dek", j>>]
HedgedNonce == [j \in 1 .. NONCE_LEN |-> <<"nonce", j>>]

\* Header::encode and Header::decode.
HeaderEncode(dek, recv_count, padding) == dek \o <<Num(recv_count), Num(padding)>>
\* A decoder that reads the two counts in the other order.
HeaderDecode_Swapped(header) ==
    [dek |-> Take(header, DEK_LEN),
     recv_count |-> header[DEK_LEN + U64_LEN + 1][2],
     padding |-> header[DEK_LEN + 1][2]]
HeaderDecode(header) ==
    [dek |-> Take(header, DEK_LEN),
     recv_count |-> header[DEK_LEN + 1][2],
     padding |-> header[DEK_LEN + U64_LEN + 1][2]]

\* The loop over the receivers of encrypt: e is the duplex, the table, the
\* bytes written and their count.
RECURSIVE EncryptHeaders(_, _, _)
EncryptHeaders(e, c, i) ==
    IF i > Len(c.receivers) THEN e
    ELSE LET tb0 == Reg(e.tbl, e.dx)
             nonce == SqueezeOut(tb0, e.dx, NONCE_LEN)
             sr == SresEncrypt(tb0, c.ds, c.qs, c.de, c.qe, c.receivers[i],
                               nonce, c.header)
         IN EncryptHeaders([dx |-> Absorb(AfterSqueeze(e.dx, NONCE_LEN), sr.out),
                            tbl |-> sr.tbl,
                            out |-> e.out \o sr.out,
                            written |-> e.written + ENC_HEADER_LEN], c, i + 1)

\* encrypt_message: the blocks of the reader, sealed; the last one is short.
\* A count that leaves the tag out.
BlockWritten_NoTag(block) == Len(block) - TAG_LEN
BlockWritten(block) == Len(block)
\* An encrypt_message that ratchets only when it goes on to another block.
RECURSIVE EncryptMessage_NoFinalRatchet(_, _, _)
EncryptMessage_NoFinalRatchet(e, rest, ratchets) ==
    LET n == Min(Len(rest), BLOCK_LEN)
        sl == Seal(e.tbl, e.dx, Take(rest, n))
        e1 == [dx |-> sl.dx, tbl |-> sl.tbl, out |-> e.out \o sl.out,
               written |-> e.written + BlockWritten(sl.out)]
    IN IF n < BLOCK_LEN THEN e1
       ELSE EncryptMessage_NoFinalRatchet(
                [e1 EXCEPT !.dx = IF ratchets THEN Ratchet(sl.dx) ELSE sl.dx],
                Drop(rest, n), ratchets)

\* An encrypt_message that stops at the end of the reader without sealing
\* an empty block once it has sealed a full one.
RECURSIVE EncryptMessage_NoEmptyBlock(_, _, _)
EncryptMessage_NoEmptyBlock(e, rest, ratchets) ==
    LET n == Min(Len(rest), BLOCK_LEN)
        sl == Seal(e.tbl, e.dx, Take(rest, n))
        e1 == [dx |-> IF ratchets THEN Ratchet(sl.dx) ELSE sl.dx,
               tbl |-> sl.tbl, out |-> e.out \o sl.out,
               written |-> e.written + BlockWritten(sl.out)]
    IN IF n = 0 /\ e.written > 0 THEN e
       ELSE IF n < BLOCK_LEN THEN e1
       ELSE EncryptMessage_NoEmptyBlock(e1, Drop(rest, n), ratchets)

\* The older encrypt_message ratchets the duplex after every block.
RECURSIVE EncryptMessage(_, _, _)
EncryptMessage(e, rest, ratchets) ==
    LET n == Min(Len(rest), BLOCK_LEN)
        sl == Seal(e.tbl, e.dx, Take(rest, n))
        e1 == [dx |-> IF ratchets THEN Ratchet(sl.dx) ELSE sl.dx,
               tbl |-> sl.tbl, out |-> e.out \o sl.out,
               written |-> e.written + BlockWritten(sl.out)]
    IN IF n < BLOCK_LEN THEN e1 ELSE EncryptMessage(e1, Drop(rest, n), ratchets)

\* encrypt, with the receiver count the headers declare as a parameter:
\* nonce, headers, padding, sealed blocks, signature.
EncryptDeclaring(ds, receivers, count, padding, plaintext, de, k, r, ratchets) ==
    LET qs == Mul(ds, G)
        S0 == Absorb(New("veil.mres"), <<Pt(qs)>>)
        S1 == Absorb(S0, HedgedNonce)
        c == [ds |-> ds, qs |-> qs, de |-> de, qe |-> Mul(de, G),
              receivers |-> receivers,
              header |-> HeaderEncode(HedgedDek, count, padding)]
        e1 == EncryptHeaders([dx |-> S1, tbl |-> <<>>, out |-> HedgedNonce,
                              written |-> NONCE_LEN], c, 1)
        pad == RandomBytes(padding)
        S2 == Absorb(AbsorbBlocks(e1.dx, pad), HedgedDek)
        e2 == EncryptMessage([dx |-> IntoKeyed(S2), tbl |-> e1.tbl,
                              out |-> <<>>, written |-> 0], plaintext, ratchets)
        sg == SignProtocol(e2.tbl, e2.dx, de, k, r)
    IN [out |-> e1.out \o pad \o e2.out \o sg.sig,
        written |-> e1.written + Len(pad) + e2.written + SIGNATURE_LEN,
        tbl |-> sg.tbl, chal |-> sg.chal, qe |-> Mul(de, G),
        hdx |-> e1.dx, mdx |-> e2.dx]

\* encrypt: every header declares receivers.len().
MresEncrypt(ds, receivers, padding, plaintext, de, k, r, ratchets) ==
    EncryptDeclaring(ds, receivers, Len(receivers), padding, plaintext, de, k, r,
                     ratchets)

(***************************************************************************)
(* The state: one message is encrypted, handed over (possibly changed on   *)
(* the way, or to the wrong party) and decrypted step by step.             *)
(***************************************************************************)
VARIABLES
    pc,         \* where the run is
    msg,        \* what encrypt was given and what it returned and wrote
    scen,       \* what happened to the cipher text on the way
    ct,         \* the bytes of decrypt's reader
    keys,       \* the keys decrypt is called with
    rd,         \* how many bytes decrypt has read
    dx,         \* decrypt's duplex
    hdr,        \* decrypt_header: the header that decrypted, if any
    hi,         \* decrypt_header: i
    recv_count, \* decrypt_header: recv_count
    buf,        \* decrypt_message: buf
    offset,     \* decrypt_message: offset
    written,    \* decrypt_message: written
    wout,       \* the bytes decrypt wrote to its writer
    trace,      \* what decrypt did: the blocks it unsealed, the signature check
    result,     \* what decrypt returned
    sg,         \* veil.schnorr: a signature and its verification
    hk,         \* hierarchical key derivation: the keys derived so far
    sd,         \* scaldf: a key id and what is derived with it
    ko,         \* key derivation with the labels in two orders
    ak,         \* akem: one encapsulation and what decapsulate is given
    dg,         \* digest: two calls of Digest::new
    sf,         \* string forms: a value formatted, a text parsed
    sk,         \* SecretKey: encrypt with a passphrase, then decrypt
    hg,         \* hedge: one call on a duplex, and the hedged values of two messages
    io,         \* PrivateKey::encrypt and decrypt writing through a BufWriter to a writer that can fail
    dvs,        \* dvsig: one signature and what verify is given
    sw          \* streaming schnorr: a Signer and a Verifier fed by write calls

mresVars == <<pc, msg, scen, ct, keys, rd, dx, hdr, hi, recv_count, buf, offset,
              written, wout, trace, result>>
others == <<sg, hk, sd, ko, ak, dg, sf, sk, hg, io, dvs, sw>>
notSg == <<mresVars, hk, sd, ko, ak, dg, sf, sk, hg, io, dvs, sw>>
notHk == <<mresVars, sg, sd, ko, ak, dg, sf, sk, hg, io, dvs, sw>>
notSd == <<mresVars, sg, hk, ko, ak, dg, sf, sk, hg, io, dvs, sw>>
notKo == <<mresVars, sg, hk, sd, ak, dg, sf, sk, hg, io, dvs, sw>>
notAk == <<mresVars, sg, hk, sd, ko, dg, sf, sk, hg, io, dvs, sw>>
notDg == <<mresVars, sg, hk, sd, ko, ak, sf, sk, hg, io, dvs, sw>>
notSf == <<mresVars, sg, hk, sd, ko, ak, dg, sk, hg, io, dvs, sw>>
notSk == <<mresVars, sg, hk, sd, ko, ak, dg, sf, hg, io, dvs, sw>>
notHg == <<mresVars, sg, hk, sd, ko, ak, dg, sf, sk, io, dvs, sw>>
notIo == <<mresVars, sg, hk, sd, ko, ak, dg, sf, sk, hg, dvs, sw>>
notDvs == <<mresVars, sg, hk, sd, ko, ak, dg, sf, sk, hg, io, sw>>
notSw == <<mresVars, sg, hk, sd, ko, ak, dg, sf, sk, hg, io, dvs>>
vars == <<mresVars, others>>

U64_MAX == USIZE_MOD - 1
BUF_LEN == ENC_BLOCK_LEN + SIGNATURE_LEN

SenderKeys == {1}
ReceiverKeys == {2, 3}
EphemeralKeys == {4}
Commitments == {2}
Challenges == {0, 3}

RECURSIVE SeqsUpTo(_, _)
SeqsUpTo(S, n) ==
    IF n = 0 THEN {<<>>}
    ELSE LET shorter == SeqsUpTo(S, n - 1)
         IN shorter \cup {Append(q, x) : q \in {t \in shorter : Len(t) = n - 1}, x \in S}

Range(q) == {q[i] : i \in 1 .. Len(q)}

NoMsg == [api |-> "none", recipients |-> <<>>, fakes |-> 0,
          ds |-> 0, qs |-> 0, receivers |-> <<>>, padding |-> 0, len |-> 0,
          out |-> <<>>, written |-> 0, tbl |-> <<>>,
          chal |-> [st |-> <<>>, r |-> 0], qe |-> 0, hdx |-> <<>>, mdx |-> <<>>,
          count |-> 0]
NoHdr == [found |-> FALSE, qe |-> 0, dek |-> <<>>, padding |-> 0, at |-> 0]
NoResult == [kind |-> "none", n |-> 0]
NoTrace == [blocks |-> <<>>, sig |-> <<>>, sigok |-> FALSE]
NoSig == [pc |-> "sign", d |-> 0, message |-> <<>>, k |-> 0, r |-> 0,
          sig |-> <<>>, tbl |-> <<>>, chal |-> [st |-> <<>>, r |-> 0],
          kind |-> "none", at |-> 0, vq |-> 0, vmessage |-> <<>>, vsig |-> <<>>,
          s |-> NoScalar, result |-> "none", sdx |-> <<>>, vdx |-> <<>>,
          rp |-> NoScalar]
NoSd == [pc |-> "inputs", kind |-> "none", d |-> 0, key_id |-> <<>>,
         first |-> <<>>, second |-> <<>>, h |-> <<>>, scalar |-> 0, point |-> 0,
         chained |-> [scalar |-> 0, point |-> 0],
         whole |-> [scalar |-> 0, point |-> 0]]
NoKo == [pc |-> "key", labels |-> <<>>, i |-> 0,
         forward |-> [d |-> <<>>, q |-> <<>>], backward |-> [d |-> <<>>, q |-> <<>>]]
NoChal == [st |-> <<>>, r |-> 0]
NoOutcome == [kind |-> "none", qe |-> 0, pt |-> <<>>, identity |-> FALSE, keyed |-> FALSE]
NoAk == [pc |-> "key", version |-> "none", ds |-> 0, de |-> 0, dr |-> 0,
         plaintext |-> <<>>, out |-> <<>>, tbl |-> <<>>, chal |-> NoChal,
         kind |-> "none", at |-> 0, qs |-> 0, input |-> <<>>, result |-> NoOutcome]
NoDg == [pc |-> "inputs", kind |-> "none", metadata |-> <<>>, message |-> <<>>,
         metadata2 |-> <<>>, message2 |-> <<>>, a |-> <<>>, b |-> <<>>]
Unset == 0 - 1
NoHk == [pc |-> "key", root |-> 0, labels |-> <<>>, i |-> 0, d |-> 0, q |-> 0,
         p |-> 0, oracle |-> <<>>, key |-> [d |-> 0, q |-> 0], calls |-> 0,
         all |-> <<>>, whole |-> [d |-> 0, q |-> 0]]

NoSf == [pc |-> "start", kind |-> "none", origin |-> "none", value |-> <<>>,
         text |-> <<>>, parsed |-> [ok |-> FALSE, err |-> "none", value |-> <<>>]]

NoSk == [pc |-> "encrypt", r |-> <<>>, passphrase |-> "none", out |-> <<>>,
         tbl |-> <<>>, kind |-> "none", given |-> "none", input |-> <<>>,
         attempted |-> FALSE, ok |-> FALSE, err |-> "none", key |-> <<>>]

NoHedged == [ds |-> 0, rnd |-> 0, plaintext |-> <<>>, ephemeral |-> <<>>,
             dek |-> <<>>, nonce |-> <<>>]
NoHg == [pc |-> "start", before |-> <<>>, secret |-> <<>>, random |-> <<>>,
         f |-> "none", self |-> <<>>, clone |-> <<>>, value |-> <<>>,
         out |-> <<>>, a |-> NoHedged, b |-> NoHedged]

NoIo == [pc |-> "start", op |-> "none", chunks |-> <<>>, fail_at |-> 0,
         buffered |-> 0, sink |-> 0, calls |-> 0, failed |-> FALSE,
         count |-> 0, result |-> "none"]

NoDvs == [pc |-> "sign", ds |-> 0, dv |-> 0, m |-> <<>>, s |-> 0, sig |-> <<>>,
          chal |-> NoChal, kind |-> "none",
          given |-> [dv |-> 0, qv |-> 0, qs |-> 0, m |-> <<>>, sig |-> <<>>],
          result |-> FALSE]

NoStrobe == [h |-> <<>>, cur |-> <<>>, pos_begin |-> 0, role |-> "none"]
NoSw == [pc |-> "start", d |-> 0, m |-> <<>>, vm |-> <<>>, rest |-> <<>>,
         schunks |-> <<>>, vchunks |-> <<>>, strobe |-> NoStrobe,
         sig |-> <<>>, chal |-> NoChal, result |-> FALSE]

Init ==
    /\ pc = "encrypt"
    /\ msg = NoMsg
    /\ scen = [kind |-> "none", at |-> 0]
    /\ ct = <<>>
    /\ keys = [dr |-> 0, qr |-> 0, qs |-> 0]
    /\ rd = 0
    /\ dx = <<>>
    /\ hdr = NoHdr
    /\ hi = 0
    /\ recv_count = 0
    /\ buf = <<>>
    /\ offset = 0
    /\ written = 0
    /\ wout = <<>>
    /\ trace = NoTrace
    /\ result = NoResult
    /\ sg = NoSig
    /\ hk = NoHk
    /\ sd = NoSd
    /\ ko = NoKo
    /\ ak = NoAk
    /\ dg = NoDg
    /\ sf = NoSf
    /\ sk = NoSk
    /\ hg = NoHg
    /\ io = NoIo
    /\ dvs = NoDvs
    /\ sw = NoSw

\* mres::encrypt, for every sender, receiver list, padding and plaintext
\* length, and every value the hedge and the challenge can take.
Encrypt ==
    /\ UNCHANGED others
    /\ pc = "encrypt"
    /\ \E ds \in SenderKeys, recv \in SeqsUpTo({Mul(d, G) : d \in ReceiverKeys}, MaxRecv),
          padding \in 0 .. MaxPad, len \in 0 .. MaxLen,
          de \in EphemeralKeys, k \in Commitments, r \in Challenges :
        \E e \in {MresEncrypt(ds, recv, padding, Plaintext(len), de, k, r, FALSE)} :
           msg' = [api |-> "mres", recipients |-> recv, fakes |-> 0,
                   ds |-> ds, qs |-> Mul(ds, G), receivers |-> recv,
                   padding |-> padding, len |-> len, out |-> e.out,
                   written |-> e.written, tbl |-> e.tbl, chal |-> e.chal,
                   qe |-> e.qe, hdx |-> e.hdx, mdx |-> e.mdx,
                   count |-> Len(recv)]
    /\ pc' = "deliver"
    /\ UNCHANGED <<scen, ct, keys, rd, dx, hdr, hi, recv_count, buf, offset,
                   written, wout, trace, result>>

\* One of the receivers the caller named, with its own key pair and the
\* sender's public key.
RightKeys == {[dr |-> d, qr |-> Mul(d, G), qs |-> msg.qs] :
                d \in {x \in ReceiverKeys : Mul(x, G) \in Range(msg.recipients)}}
AllKeys == [dr : NonZero, qr : NonZero, qs : NonZero]
Differences(a, b) ==
    (IF a.dr # b.dr THEN 1 ELSE 0) + (IF a.qr # b.qr THEN 1 ELSE 0)
        + (IF a.qs # b.qs THEN 1 ELSE 0)
\* Keys with one of the three wrong, and the key pairs of parties that are
\* no receivers.
WrongKeys ==
    {ks \in AllKeys \ RightKeys :
        \/ \E rk \in RightKeys : Differences(ks, rk) = 1
        \/ ks.qr = Mul(ks.dr, G) /\ ks.qs = msg.qs}

Start(kind, at, stream, ks) ==
    /\ UNCHANGED others
    /\ scen' = [kind |-> kind, at |-> at]
    /\ ct' = stream
    /\ keys' = ks
    /\ pc' = "nonce"
    /\ UNCHANGED <<msg, rd, dx, hdr, hi, recv_count, buf, offset, written,
                   wout, trace, result>>

\* The cipher text reaches a receiver as it was written.
DeliverHonest ==
    /\ pc = "deliver"
    /\ \E ks \in RightKeys : Start("honest", 0, msg.out, ks)

\* One bit of the cipher text is changed on the way.
DeliverFlipped ==
    /\ pc = "deliver"
    /\ \E ks \in RightKeys, at \in 1 .. Len(msg.out) :
        Start("flip", at, [msg.out EXCEPT ![at] = Flip(@)], ks)

\* The cipher text is cut short on the way.
DeliverTruncated ==
    /\ pc = "deliver"
    /\ \E ks \in RightKeys, at \in 0 .. (Len(msg.out) - 1) :
        Start("trunc", at, Take(msg.out, at), ks)

\* The cipher text is decrypted with keys that are not a receiver's key
\* pair and the sender's public key.
DeliverWrongKeys ==
    /\ pc = "deliver"
    /\ \E ks \in WrongKeys : Start("keys", 0, msg.out, ks)

(***************************************************************************)
(* veil.mres: decryption.                                                  *)
(***************************************************************************)
Avail == Len(ct) - rd
Finish(kind, n) ==
    /\ pc' = "done"
    /\ result' = [kind |-> kind, n |-> n]

\* decrypt, up to the call of decrypt_header: the sender's public key and
\* the nonce are absorbed.  read_exact fails with an I/O error at the end of
\* the reader.
DecryptBegin ==
    IF Avail < NONCE_LEN
    THEN [err |-> "Io", dx |-> dx, read |-> Avail]
    ELSE [err |-> "none", read |-> NONCE_LEN,
          dx |-> Absorb(Absorb(New("veil.mres"), <<Pt(keys.qs)>>),
                        SubSeq(ct, rd + 1, rd + NONCE_LEN))]

DecryptNonce ==
    /\ UNCHANGED others
    /\ pc = "nonce"
    /\ LET b == DecryptBegin
       IN /\ rd' = rd + b.read
          /\ dx' = b.dx
          /\ IF b.err = "none"
             THEN /\ pc' = "headers"
                  /\ hi' = 0
                  /\ recv_count' = U64_MAX
                  /\ UNCHANGED result
             ELSE /\ Finish(b.err, 0)
                  /\ UNCHANGED <<hi, recv_count>>
    /\ UNCHANGED <<msg, scen, ct, keys, hdr, buf, offset, written, wout, trace>>

\* A read_exact of an encrypted header whose error is passed on as it is.
HeaderEofError_Unmapped == "Io"

\* What read_exact of an encrypted header maps an early end of the reader to.
HeaderEofError == "InvalidCiphertext"

\* A decrypt_header that opens a header with whichever receiver key fits,
\* not with the key it was given.
HeaderStep_AnyReceiver(tbl, S, h, i, count, enc_header) ==
    LET nonce == SqueezeOut(tbl, S, NONCE_LEN)
        S1 == Absorb(AfterSqueeze(S, NONCE_LEN), enc_header)
        opens == {x \in NonZero :
                    SresDecrypt(tbl, x, Mul(x, G), keys.qs, nonce, enc_header).ok}
        sr == IF h.found \/ opens = {} THEN [ok |-> FALSE, qe |-> 0, pt |-> <<>>]
              ELSE LET dr == CHOOSE x \in opens : TRUE
                   IN SresDecrypt(tbl, dr, Mul(dr, G), keys.qs, nonce, enc_header)
        d == HeaderDecode(sr.pt)
    IN [dx |-> S1,
        hdr |-> IF sr.ok
                THEN [found |-> TRUE, qe |-> sr.qe, dek |-> d.dek,
                      padding |-> d.padding, at |-> i + 1]
                ELSE h,
        recv_count |-> IF sr.ok THEN d.recv_count ELSE count,
        i |-> i + 1]

\* A decrypt_header that leaves the duplex alone once a header has decrypted.
HeaderStep_StopAfterFound(tbl, S, h, i, count, enc_header) ==
    IF h.found THEN [dx |-> S, hdr |-> h, recv_count |-> count, i |-> i + 1]
    ELSE LET nonce == SqueezeOut(tbl, S, NONCE_LEN)
             sr == SresDecrypt(tbl, keys.dr, keys.qr, keys.qs, nonce, enc_header)
             d == HeaderDecode(sr.pt)
         IN [dx |-> Absorb(AfterSqueeze(S, NONCE_LEN), enc_header),
             hdr |-> IF sr.ok
                     THEN [found |-> TRUE, qe |-> sr.qe, dek |-> d.dek,
                           padding |-> d.padding, at |-> i + 1]
                     ELSE h,
             recv_count |-> IF sr.ok THEN d.recv_count ELSE count,
             i |-> i + 1]

\* One iteration of decrypt_header's loop over an encrypted header that was
\* read in full.
HeaderStep(tbl, S, h, i, count, enc_header) ==
    LET nonce == SqueezeOut(tbl, S, NONCE_LEN)
        S1 == Absorb(AfterSqueeze(S, NONCE_LEN), enc_header)
        sr == IF h.found THEN [ok |-> FALSE, qe |-> 0, pt |-> <<>>]
              ELSE SresDecrypt(tbl, keys.dr, keys.qr, keys.qs, nonce, enc_header)
        d == HeaderDecode(sr.pt)
    IN [dx |-> S1,
        hdr |-> IF sr.ok
                THEN [found |-> TRUE, qe |-> sr.qe, dek |-> d.dek,
                      padding |-> d.padding, at |-> i + 1]
                ELSE h,
        recv_count |-> IF sr.ok THEN d.recv_count ELSE count,
        i |-> i + 1]

DecryptHeader ==
    /\ UNCHANGED others
    /\ pc = "headers"
    /\ hi < recv_count
    /\ IF Avail < ENC_HEADER_LEN
       THEN /\ Finish(HeaderEofError, 0)
            /\ rd' = Len(ct)
            /\ UNCHANGED <<dx, hdr, hi, recv_count>>
       ELSE LET st == HeaderStep(msg.tbl, dx, hdr, hi, recv_count,
                                 SubSeq(ct, rd + 1, rd + ENC_HEADER_LEN))
            IN /\ dx' = st.dx
               /\ hdr' = st.hdr
               /\ recv_count' = st.recv_count
               /\ hi' = st.i
               /\ rd' = rd + ENC_HEADER_LEN
               /\ UNCHANGED <<pc, result>>
    /\ UNCHANGED <<msg, scen, ct, keys, buf, offset, written, wout, trace>>

\* The end of decrypt_header and decrypt up to decrypt_message: without a
\* header the cipher text is invalid; otherwise the padding is read and
\* absorbed, the DEK absorbed and the duplex keyed.
PaddingRead(padding) == Min(padding, Avail)
\* The buffer decrypt_message starts with: an array of zeroes in the newer
\* code, an empty Vec in the older.
NewBuffer(api) == IF api = "facade" THEN <<>> ELSE [j \in 1 .. BUF_LEN |-> Zero]
KeyedAfterPadding(S, pad, dek) == IntoKeyed(Absorb(AbsorbBlocks(S, pad), dek))

DecryptPadding ==
    /\ UNCHANGED others
    /\ pc = "headers"
    /\ ~(hi < recv_count)
    /\ IF ~hdr.found
       THEN /\ Finish("InvalidCiphertext", 0)
            /\ UNCHANGED <<rd, dx, buf, offset, written>>
       ELSE LET n == PaddingRead(hdr.padding)
            IN /\ rd' = rd + n
               /\ dx' = KeyedAfterPadding(dx, SubSeq(ct, rd + 1, rd + n), hdr.dek)
               /\ buf' = NewBuffer(msg.api)
               /\ offset' = 0
               /\ written' = 0
               /\ pc' = "message"
               /\ UNCHANGED result
    /\ UNCHANGED <<msg, scen, ct, keys, hdr, hi, recv_count, wout, trace>>

\* n - SIGNATURE_LEN + offset in usize arithmetic.  The subtraction goes
\* below zero when n < SIGNATURE_LEN: a build with overflow checks panics
\* there, a build without them wraps around.  Panicked stands for the panic.
Panicked == 0 - 1
BlockLen(n, off, checks) ==
    IF n < SIGNATURE_LEN /\ checks THEN Panicked
    ELSE (((n - SIGNATURE_LEN) % USIZE_MOD) + off) % USIZE_MOD

\* read_block: the buffer from offset on, filled as far as the reader goes.
ReadBlock(b, off, n) ==
    [j \in 1 .. Len(b) |-> IF off < j /\ j <= off + n THEN ct[rd + j - off] ELSE b[j]]

\* buf.copy_within(block_len.., 0)
CopyWithin(b, block_len) ==
    [j \in 1 .. Len(b) |-> IF j <= Len(b) - block_len THEN b[j + block_len] ELSE b[j]]

\* One iteration of decrypt_message's loop (the array buffer).
DecryptBlock ==
    /\ UNCHANGED others
    /\ pc = "message"
    /\ LET n == Min(Avail, BUF_LEN - offset)
           filled == ReadBlock(buf, offset, n)
       IN IF n = 0
          THEN /\ pc' = "verify"
               /\ trace' = [trace EXCEPT !.sig = Take(buf, SIGNATURE_LEN)]
               /\ UNCHANGED <<rd, dx, buf, offset, written, wout, result>>
          ELSE \E checks \in BOOLEAN :
               LET block_len == BlockLen(n, offset, checks)
               IN IF block_len = Panicked \/ block_len > BUF_LEN
                  THEN /\ Finish("Panic", 0)
                       /\ rd' = rd + n
                       /\ buf' = filled
                       /\ UNCHANGED <<dx, offset, written, wout, trace>>
                  ELSE LET us == Unseal(msg.tbl, dx, Take(filled, block_len))
                       IN /\ rd' = rd + n
                          /\ dx' = us.dx
                          /\ IF us.ok
                             THEN /\ wout' = wout \o us.pt
                                  /\ written' = written + Len(us.pt)
                                  /\ buf' = CopyWithin(filled, block_len)
                                  /\ offset' = BUF_LEN - block_len
                                  /\ trace' = [trace EXCEPT !.blocks = Append(@, block_len)]
                                  /\ UNCHANGED <<pc, result>>
                             ELSE /\ Finish("InvalidCiphertext", 0)
                                  /\ buf' = filled
                                  /\ UNCHANGED <<offset, written, wout, trace>>
    /\ UNCHANGED <<msg, scen, ct, keys, hdr, hi, recv_count>>

\* The end of decrypt: the signature is verified with the ephemeral public
\* key of the header, and the count of plaintext bytes returned.
DecryptVerify ==
    /\ UNCHANGED others
    /\ pc = "verify"
    /\ \E pick \in Scalars \cup {NoScalar} :
        LET v == VerifyProtocol(msg.tbl, msg.chal, dx, hdr.qe, trace.sig, pick)
        IN /\ pick \in DecodeScalar(v.cell)
           /\ dx' = v.dx
           /\ trace' = [trace EXCEPT !.sigok = v.ok]
           /\ IF v.ok THEN Finish("Ok", written)
                      ELSE Finish("InvalidCiphertext", 0)
    /\ UNCHANGED <<msg, scen, ct, keys, rd, hdr, hi, recv_count, buf, offset,
                   written, wout>>

Next ==
    \/ Encrypt
    \/ DeliverHonest
    \/ DeliverFlipped
    \/ DeliverTruncated
    \/ DeliverWrongKeys
    \/ DecryptNonce
    \/ DecryptHeader
    \/ DecryptPadding
    \/ DecryptBlock
    \/ DecryptVerify

Spec == Init /\ [][Next]_vars

\* A sender who signs a cipher text whose headers declare any number of
\* receivers: none, the number it has headers for, or u64::MAX.  The plaintext
\* is empty, one full block, or the longest, and the challenge is 0.
DeclaredCounts(n) == {0, n, U64_MAX}
ForgedLens == {0, BLOCK_LEN, MaxLen}
EncryptForged ==
    /\ UNCHANGED others
    /\ pc = "encrypt"
    /\ \E ds \in SenderKeys, recv \in SeqsUpTo({Mul(d, G) : d \in ReceiverKeys}, MaxRecv),
          padding \in 0 .. MaxPad, len \in ForgedLens,
          de \in EphemeralKeys, k \in Commitments, r \in {0} :
        \E count \in DeclaredCounts(Len(recv)) :
            \E e \in {EncryptDeclaring(ds, recv, count, padding, Plaintext(len),
                                        de, k, r, FALSE)} :
               msg' = [api |-> "mres", recipients |-> recv, fakes |-> 0,
                       ds |-> ds, qs |-> Mul(ds, G), receivers |-> recv,
                       padding |-> padding, len |-> len, out |-> e.out,
                       written |-> e.written, tbl |-> e.tbl, chal |-> e.chal,
                       qe |-> e.qe, hdx |-> e.hdx, mdx |-> e.mdx,
                       count |-> count]
    /\ pc' = "deliver"
    /\ UNCHANGED <<scen, ct, keys, rd, dx, hdr, hi, recv_count, buf, offset,
                   written, wout, trace, result>>

\* decrypt is one sequential call: once it has started, its next step is
\* taken.
DecryptStep ==
    \/ DecryptNonce
    \/ DecryptHeader
    \/ DecryptPadding
    \/ DecryptBlock
    \/ DecryptVerify

NextForged ==
    \/ EncryptForged
    \/ DeliverHonest
    \/ DeliverFlipped
    \/ DeliverTruncated
    \/ DeliverWrongKeys
    \/ DecryptStep

\* Weak fairness of the steps of decrypt.  For the two loops ENABLED is
\* written out: the header step has no guard but pc = "headers" and
\* hi < recv_count and changes hi or pc, the block step none but
\* pc = "message" and changes rd or pc.
HeaderFair ==
    \/ []<>~(pc = "headers" /\ hi < recv_count)
    \/ []<><<DecryptHeader>>_vars
BlockFair ==
    \/ []<>(pc # "message")
    \/ []<><<DecryptBlock>>_vars
DecryptFair ==
    /\ WF_vars(DecryptNonce \/ DecryptPadding \/ DecryptVerify)
    /\ HeaderFair
    /\ BlockFair

SpecTerminates == Init /\ [][NextForged]_vars /\ DecryptFair

(***************************************************************************)
(* The facade: PrivateKey::encrypt and PrivateKey::decrypt over the older  *)
(* message loop, which keeps its look-ahead in a Vec and ratchets the      *)
(* duplex after every block.  The BufWriter the facade wraps the caller's  *)
(* writer in is flushed when the call returns; with a writer that takes    *)
(* every byte, what reaches the caller's writer is what was written.       *)
(***************************************************************************)
FakeKeys == {3, 4}

Perms(n) == {p \in [1 .. n -> 1 .. n] : \A i, j \in 1 .. n : p[i] = p[j] => i = j}
\* A shuffle that copies one element over the others.
Shuffle_Repeating(q_rs, p) == [i \in 1 .. Len(q_rs) |-> q_rs[p[1]]]
Shuffle(q_rs, p) == [i \in 1 .. Len(q_rs) |-> q_rs[p[i]]]
\* Point::random, once for every fake.
RandomPoints(fakes) == [1 .. fakes -> {Mul(d, G) : d \in FakeKeys}]
FlushOnDrop(sink, buffered) == sink \o buffered

\* PrivateKey::encrypt: the fakes are added, the list shuffled, and
\* mres::encrypt writes through a BufWriter.
FacadeEncrypt ==
    /\ UNCHANGED others
    /\ pc = "encrypt"
    /\ \E ds \in SenderKeys, recipients \in SeqsUpTo({Mul(d, G) : d \in ReceiverKeys}, MaxRecv),
          padding \in 0 .. MaxPad, len \in 0 .. MaxLen,
          de \in EphemeralKeys, k \in Commitments, r \in Challenges :
        \E fakes \in 0 .. (MaxRecv - Len(recipients)) :
        \E points \in RandomPoints(fakes), p \in Perms(Len(recipients) + fakes) :
            \E q_rs \in {Shuffle(recipients \o points, p)} :
            \E e \in {MresEncrypt(ds, q_rs, padding, Plaintext(len), de, k, r, TRUE)} :
               msg' = [api |-> "facade", recipients |-> recipients, fakes |-> fakes,
                       ds |-> ds, qs |-> Mul(ds, G), receivers |-> q_rs,
                       padding |-> padding, len |-> len,
                       out |-> FlushOnDrop(<<>>, e.out),
                       written |-> e.written, tbl |-> e.tbl, chal |-> e.chal,
                       qe |-> e.qe, hdx |-> e.hdx, mdx |-> e.mdx,
                       count |-> Len(q_rs)]
    /\ pc' = "deliver"
    /\ UNCHANGED <<scen, ct, keys, rd, dx, hdr, hi, recv_count, buf, offset,
                   written, wout, trace, result>>

\* One iteration of the older decrypt_message's loop (the Vec buffer): the
\* reader fills the buffer up to a block and a signature, all but the last
\* SIGNATURE_LEN bytes are unsealed, the duplex is ratcheted and the bytes
\* used are drained.
DecryptBlockVec ==
    /\ UNCHANGED others
    /\ pc = "message"
    /\ LET n == Min(Avail, BUF_LEN - Len(buf))
           filled == buf \o SubSeq(ct, rd + 1, rd + n)
       IN IF n = 0
          THEN /\ pc' = "verify"
               /\ trace' = [trace EXCEPT !.sig = buf]
               /\ UNCHANGED <<rd, dx, buf, written, wout, result>>
          ELSE \E checks \in BOOLEAN :
               LET block_len == BlockLen(Len(filled), 0, checks)
               IN IF block_len = Panicked \/ block_len > Len(filled)
                  THEN /\ Finish("Panic", 0)
                       /\ rd' = rd + n
                       /\ buf' = filled
                       /\ UNCHANGED <<dx, written, wout, trace>>
                  ELSE LET us == Unseal(msg.tbl, dx, Take(filled, block_len))
                       IN /\ rd' = rd + n
                          /\ IF us.ok
                             THEN /\ wout' = wout \o us.pt
                                  /\ written' = written + Len(us.pt)
                                  /\ dx' = Ratchet(us.dx)
                                  /\ buf' = Drop(filled, block_len)
                                  /\ trace' = [trace EXCEPT !.blocks = Append(@, block_len)]
                                  /\ UNCHANGED <<pc, result>>
                             ELSE /\ Finish("InvalidCiphertext", 0)
                                  /\ dx' = us.dx
                                  /\ buf' = filled
                                  /\ UNCHANGED <<written, wout, trace>>
    /\ UNCHANGED <<msg, scen, ct, keys, hdr, hi, recv_count, offset>>

NextFacade ==
    \/ FacadeEncrypt
    \/ DeliverHonest
    \/ DecryptNonce
    \/ DecryptHeader
    \/ DecryptPadding
    \/ DecryptBlockVec
    \/ DecryptVerify

SpecFacade == Init /\ [][NextFacade]_vars

(***************************************************************************)
(* veil.schnorr: sign and verify.  The message is a sequence of symbols;   *)
(* the hedge may return any scalar as the commitment scalar, and the       *)
(* challenge the protocol derives after the commitment may be any scalar.  *)
(***************************************************************************)
MaxMsg == 2
Symbols == {"a", "b"}
Messages == SeqsUpTo(Symbols, MaxMsg)

Mix(S, data) == Append(S, <<"mix", data>>)
SchnorrInit(q, message) == Mix(Mix(New("veil.schnorr"), <<Pt(q)>>), message)
SchnorrSign(d, message, k, r) ==
    SignProtocol(<<>>, SchnorrInit(Mul(d, G), message), d, k, r)
SchnorrVerify(tbl, chal, q, message, sig, pick) ==
    VerifyProtocol(tbl, chal, SchnorrInit(q, message), q, sig, pick)

\* sign, for every signer, message, commitment scalar and challenge.
SignMessage ==
    /\ sg.pc = "sign"
    /\ \E d \in NonZero, message \in Messages, k \in Scalars, r \in Scalars :
        LET sp == SchnorrSign(d, message, k, r)
        IN sg' = [sg EXCEPT !.pc = "signed", !.d = d, !.message = message,
                            !.k = k, !.r = r, !.sig = sp.sig, !.tbl = sp.tbl,
                            !.chal = sp.chal, !.sdx = sp.dx]
    /\ UNCHANGED notSg

Present(kind, at, q, message, sig) ==
    /\ sg' = [sg EXCEPT !.pc = "verify", !.kind = kind, !.at = at, !.vq = q,
                        !.vmessage = message, !.vsig = sig]
    /\ UNCHANGED notSg

\* The verifier gets the signer's public key, the message and the signature.
PresentHonest ==
    /\ sg.pc = "signed"
    /\ Present("honest", 0, Mul(sg.d, G), sg.message, sg.sig)

\* The verifier gets another message.
PresentOtherMessage ==
    /\ sg.pc = "signed"
    /\ \E message \in Messages \ {sg.message} :
        Present("message", 0, Mul(sg.d, G), message, sg.sig)

\* The verifier gets another public key.
PresentOtherKey ==
    /\ sg.pc = "signed"
    /\ \E q \in NonZero \ {Mul(sg.d, G)} :
        Present("key", 0, q, sg.message, sg.sig)

\* The verifier gets the signature with one bit changed.
PresentChangedSignature ==
    /\ sg.pc = "signed"
    /\ \E at \in 1 .. SIGNATURE_LEN :
        Present("flip", at, Mul(sg.d, G), sg.message, [sg.sig EXCEPT ![at] = Flip(@)])

\* verify: Ok when verify_protocol returns Some, InvalidSignature otherwise.
VerifySignature ==
    /\ sg.pc = "verify"
    /\ \E pick \in Scalars \cup {NoScalar} :
        LET v == SchnorrVerify(sg.tbl, sg.chal, sg.vq, sg.vmessage, sg.vsig, pick)
        IN /\ pick \in DecodeScalar(v.cell)
           /\ sg' = [sg EXCEPT !.pc = "done", !.s = pick, !.vdx = v.dx,
                               !.rp = v.rp,
                               !.result = IF v.ok THEN "Ok" ELSE "InvalidSignature"]
    /\ UNCHANGED notSg

NextSchnorr ==
    \/ SignMessage
    \/ PresentHonest
    \/ PresentOtherMessage
    \/ PresentOtherKey
    \/ PresentChangedSignature
    \/ VerifySignature

SpecSchnorr == Init /\ [][NextSchnorr]_vars

(***************************************************************************)
(* Hierarchical key derivation: PrivateKey::derive and PublicKey::derive   *)
(* over the same labels, one label at a time.  hkd::label_scalar is a hash *)
(* of a public key and a label to a scalar: a table that is filled with    *)
(* any scalar the first time a pair is asked for, and answers the same     *)
(* from then on.                                                           *)
(***************************************************************************)
MaxLabels == 3
MaxCalls == 2
Labels == {"a", "b"}

EmptyOracle == [q \in Scalars, l \in Labels |-> Unset]
Answers(oracle, q, l) == IF oracle[q, l] = Unset THEN Scalars ELSE {oracle[q, l]}
\* A step that multiplies where the code adds.
DerivePrivate_Product(d, s) == Mul(d, s)
DerivePrivate(d, s) == Add(d, s)
DerivePublic(q, s) == Add(q, Mul(s, G))
\* A fold that starts from the generator instead of the key's own point.
StartFold_Generator(key) == [d |-> key.d, q |-> G]
\* The start of the fold of PrivateKey::derive: (self.d, self.pk.q).
StartFold(key) == [d |-> key.d, q |-> key.q]
\* One step of the fold of PrivateKey::derive.
FoldPrivate(f, s) ==
    LET d == DerivePrivate(f.d, s) IN [d |-> d, q |-> Mul(d, G)]

\* SecretKey::private_key and public_key: the root key pair, and the labels
\* both derivations are given.
RootKey ==
    /\ hk.pc = "key"
    /\ \E d \in Scalars, labels \in SeqsUpTo(Labels, MaxLabels) :
        LET key == [d |-> d, q |-> Mul(d, G)]
        IN hk' = [pc |-> "derive", root |-> d, labels |-> labels, i |-> 0,
                  d |-> StartFold(key).d, q |-> StartFold(key).q, p |-> Mul(d, G),
                  oracle |-> EmptyOracle, key |-> key, calls |-> 1, all |-> labels,
                  whole |-> StartFold(key)]
    /\ UNCHANGED notHk

\* One step of the fold of PrivateKey::derive and of the fold of
\* PublicKey::derive, over the same label; and the same step of the one
\* call of PrivateKey::derive that is given all the labels at once.
DeriveLabel ==
    /\ hk.pc = "derive"
    /\ hk.i < Len(hk.labels)
    /\ LET l == hk.labels[hk.i + 1]
       IN \E s1 \in Answers(hk.oracle, hk.q, l) :
          LET o1 == [hk.oracle EXCEPT ![hk.q, l] = s1]
          IN \E s2 \in Answers(o1, hk.p, l) :
             LET o2 == [o1 EXCEPT ![hk.p, l] = s2]
             IN \E s3 \in Answers(o2, hk.whole.q, l) :
                LET f == FoldPrivate([d |-> hk.d, q |-> hk.q], s1)
                IN hk' = [hk EXCEPT !.i = @ + 1, !.d = f.d, !.q = f.q,
                                    !.p = DerivePublic(hk.p, s2),
                                    !.whole = FoldPrivate(hk.whole, s3),
                                    !.oracle = [o2 EXCEPT ![hk.whole.q, l] = s3]]
    /\ UNCHANGED notHk

\* Both folds are at the end of the labels.
DeriveDone ==
    /\ hk.pc = "derive"
    /\ hk.i = Len(hk.labels)
    /\ hk' = [hk EXCEPT !.pc = "done", !.key = [d |-> hk.d, q |-> hk.q]]
    /\ UNCHANGED notHk

\* PrivateKey::derive and PublicKey::derive of the derived keys, with more
\* labels.
DeriveAgain ==
    /\ hk.pc = "done"
    /\ hk.calls < MaxCalls
    /\ \E labels \in SeqsUpTo(Labels, MaxLabels - Len(hk.all)) :
        hk' = [hk EXCEPT !.pc = "derive", !.labels = labels, !.i = 0,
                         !.d = StartFold(hk.key).d, !.q = StartFold(hk.key).q,
                         !.calls = @ + 1, !.all = @ \o labels]
    /\ UNCHANGED notHk

NextHkd ==
    \/ RootKey
    \/ DeriveLabel
    \/ DeriveDone
    \/ DeriveAgain

SpecHkd == Init /\ [][NextHkd]_vars

(***************************************************************************)
(* akem: authenticated key encapsulation, in its two versions.  "mac" is   *)
(* veil/src/akem.rs: the encrypted ephemeral public key, the encrypted     *)
(* plaintext and a MAC.  "dv" is src/akem.rs: a commitment point and a     *)
(* signature point for the receiver follow the ephemeral public key, and   *)
(* diffie_hellman panics on the identity.  A protocol state is the         *)
(* sequence of its operations, as for the duplex; both sides of a          *)
(* transport operation reach the same state.                               *)
(***************************************************************************)
MAC_LEN == 1
MaxPlain == 2
NoPoint == 0 - 1
AKEM_OVERHEAD == POINT_LEN + MAC_LEN
AKEM_DV_OVERHEAD == POINT_LEN + POINT_LEN + POINT_LEN + MAC_LEN
Versions == {"mac", "dv"}

\* CompressedRistretto::decompress of a decrypted cell: the identity is a
\* point like any other; a changed bit gives no point or another point.
Decompress(c) ==
    IF c[1] = "pt" THEN {c[2]}
    ELSE IF c[1] = "flip" /\ c[2][1] = "pt"
         THEN (Scalars \ {c[2][2]}) \cup {NoPoint}
    ELSE Scalars \cup {NoPoint}

\* A MAC twice as long.
MacCells_Double(id) == [i \in 1 .. (MAC_LEN + MAC_LEN) |-> <<"mac", id, i>>]
MacCells(id) == [i \in 1 .. MAC_LEN |-> <<"mac", id, i>>]
\* send_enc / recv_enc, send_mac / recv_mac
EncStep(tbl, S, data) ==
    LET t == Reg(tbl, S)
        cells == EncCells(Find(t, S), data)
    IN [tbl |-> t, dx |-> AfterCrypt(S, cells), out |-> cells]
DecStep(tbl, S, cells) ==
    [dx |-> AfterCrypt(S, cells), pt |-> DecCells(Find(tbl, S), cells)]
MacStep(tbl, S) ==
    LET t == Reg(tbl, S) IN [tbl |-> t, out |-> MacCells(Find(t, S))]
\* A verification that accepts every MAC.
MacVerifies_Unchecked(tbl, S, mac) == TRUE
MacVerifies(tbl, S, mac) == Find(tbl, S) # 0 /\ mac = MacCells(Find(tbl, S))

Outcome(kind, qe, pt, identity, keyed) ==
    [kind |-> kind, qe |-> qe, pt |-> pt, identity |-> identity, keyed |-> keyed]

\* veil/src/akem.rs ------------------------------------------------------
AkemInit(qs, qr) ==
    Absorb(Absorb(Absorb(New("veil.akem"), Num(MAC_LEN)), Pt(qs)), Pt(qr))

Encapsulate(ds, qs, de, qe, qr, plaintext) ==
    LET z1 == Mul(ds, qr)
        e1 == EncStep(<<>>, KeyWith(AkemInit(qs, qr), z1), <<Pt(qe)>>)
        z2 == Mul(de, qr)
        e2 == EncStep(e1.tbl, KeyWith(e1.dx, z2), plaintext)
        m == MacStep(e2.tbl, e2.dx)
    IN [kind |-> "Ok", out |-> e1.out \o e2.out \o m.out, tbl |-> m.tbl,
        chal |-> NoChal, identity |-> z1 = 0 \/ z2 = 0, keyed |-> z1 = 0 \/ z2 = 0]

\* The ciphertext is too short to hold a point and a MAC.
TooShort(ciphertext) == Len(ciphertext) < POINT_LEN + MAC_LEN

\* The results decapsulate can return, one for each decoding of the point.
Decapsulate(tbl, dr, qr, qs, ciphertext) ==
    IF TooShort(ciphertext) THEN {Outcome("None", 0, <<>>, FALSE, FALSE)}
    ELSE
    LET z1 == Mul(dr, qs)
        x1 == DecStep(tbl, KeyWith(AkemInit(qs, qr), z1), Take(ciphertext, POINT_LEN))
        body == SubSeq(ciphertext, POINT_LEN + 1, Len(ciphertext) - MAC_LEN)
        mac == Drop(ciphertext, Len(ciphertext) - MAC_LEN)
    IN { IF qe = NoPoint THEN Outcome("None", 0, <<>>, z1 = 0, z1 = 0)
         ELSE LET z2 == Mul(dr, qe)
                  x2 == DecStep(tbl, KeyWith(x1.dx, z2), body)
                  zz == z1 = 0 \/ z2 = 0
              IN IF MacVerifies(tbl, x2.dx, mac)
                 THEN Outcome("Some", qe, x2.pt, zz, zz)
                 ELSE Outcome("None", 0, <<>>, zz, zz)
         : qe \in Decompress(x1.pt[1]) }

\* src/akem.rs ------------------------------------------------------------
MetaAdLen(S, label, n) == Absorb(S, <<"meta", label, n>>)
Meta(S, label) == Absorb(S, <<"meta", label>>)
\* send_clr and recv_clr: the state records the direction of the data as
\* the initiator sees it.
Clr(S, initiator, op, data) == Append(S, <<"clr", (op = "recv") = initiator, data>>)
\* diffie_hellman: the shared secret, or a panic when it is the identity.
DiffieHellman(d, q) ==
    LET zz == Mul(d, q) IN IF zz = 0 THEN Panicked ELSE zz

AkemDvInit(initiator, qs, qr) ==
    LET S1 == Clr(MetaAdLen(New("veil.akem"), "sender-public-key", POINT_LEN),
                  initiator, IF initiator THEN "send" ELSE "recv", Pt(qs))
    IN Clr(MetaAdLen(S1, "receiver-public-key", POINT_LEN),
           initiator, IF initiator THEN "recv" ELSE "send", Pt(qr))

\* s = k + r * d_s, and the signature point q_r * s.
SignaturePoint(k, r, ds, qr) == Mul(Add(k, Mul(r, ds)), qr)
\* A counterfactual signature point that leaves the challenge out.
CounterfactualPoint_NoChallenge(u, qs, r, dr) == Mul(dr, u)
\* k' = (u + q_s * r) * d_r
CounterfactualPoint(u, qs, r, dr) == Mul(dr, Add(u, Mul(r, qs)))

PanicOutcome == Outcome("Panic", 0, <<>>, TRUE, FALSE)

\* encapsulate with the hedged commitment scalar k and the challenge r the
\* protocol yields.
EncapsulateDv(ds, qs, de, qe, qr, plaintext, k, r) ==
    LET z1 == DiffieHellman(ds, qr)
        z2 == DiffieHellman(de, qr)
    IN IF z1 = Panicked \/ z2 = Panicked
       THEN [kind |-> "Panic", out |-> <<>>, tbl |-> <<>>, chal |-> NoChal,
             identity |-> TRUE, keyed |-> FALSE]
       ELSE
       LET S1 == KeyWith(Meta(AkemDvInit(TRUE, qs, qr), "static-shared-secret"), z1)
           e1 == EncStep(<<>>, Meta(S1, "ephemeral-public-key"), <<Pt(qe)>>)
           e2 == EncStep(e1.tbl, Meta(e1.dx, "commitment-point"), <<Pt(Mul(k, G))>>)
           Sr == Meta(e2.dx, "challenge-scalar")
           e3 == EncStep(e2.tbl, Meta(AfterSqueeze(Sr, SCALAR_LEN), "signature-point"),
                         <<Pt(SignaturePoint(k, r, ds, qr))>>)
           S2 == KeyWith(Meta(e3.dx, "ephemeral-shared-secret"), z2)
           e4 == EncStep(e3.tbl, Meta(S2, "ciphertext"), plaintext)
           m == MacStep(e4.tbl, Meta(e4.dx, "mac"))
       IN [kind |-> "Ok", out |-> e1.out \o e2.out \o e3.out \o e4.out \o m.out,
           tbl |-> m.tbl, chal |-> [st |-> Sr, r |-> r],
           identity |-> FALSE, keyed |-> FALSE]

\* The results decapsulate can return, one for each decoding of the three
\* points.
DecapsulateDv(tbl, chal, dr, qr, qs, ciphertext) ==
    IF Len(ciphertext) < AKEM_DV_OVERHEAD THEN {Outcome("None", 0, <<>>, FALSE, FALSE)}
    ELSE IF DiffieHellman(dr, qs) = Panicked THEN {PanicOutcome}
    ELSE
    LET c1 == SubSeq(ciphertext, 1, POINT_LEN)
        c2 == SubSeq(ciphertext, POINT_LEN + 1, 2 * POINT_LEN)
        c3 == SubSeq(ciphertext, 2 * POINT_LEN + 1, 3 * POINT_LEN)
        body == SubSeq(ciphertext, 3 * POINT_LEN + 1, Len(ciphertext) - MAC_LEN)
        mac == Drop(ciphertext, Len(ciphertext) - MAC_LEN)
        none == Outcome("None", 0, <<>>, FALSE, FALSE)
        S1 == KeyWith(Meta(AkemDvInit(FALSE, qs, qr), "static-shared-secret"),
                      DiffieHellman(dr, qs))
        x1 == DecStep(tbl, Meta(S1, "ephemeral-public-key"), c1)
        x2 == DecStep(tbl, Meta(x1.dx, "commitment-point"), c2)
        Sr == Meta(x2.dx, "challenge-scalar")
        r == Challenge(chal, Sr)
        x3 == DecStep(tbl, Meta(AfterSqueeze(Sr, SCALAR_LEN), "signature-point"), c3)
        Last(qe) ==
            LET z2 == DiffieHellman(dr, qe)
                S2 == KeyWith(Meta(x3.dx, "ephemeral-shared-secret"), z2)
                x4 == DecStep(tbl, Meta(S2, "ciphertext"), body)
            IN IF z2 = Panicked THEN PanicOutcome
               ELSE IF MacVerifies(tbl, Meta(x4.dx, "mac"), mac)
                    THEN Outcome("Some", qe, x4.pt, FALSE, FALSE)
                    ELSE none
    IN UNION { IF qe = NoPoint THEN {none}
               ELSE UNION { IF u = NoPoint THEN {none}
                            ELSE { IF k = NoPoint THEN none
                                   ELSE IF r = Fresh \/ CounterfactualPoint(u, qs, r, dr) # k
                                        THEN none
                                   ELSE Last(qe)
                                   : k \in Decompress(x3.pt[1]) }
                            : u \in Decompress(x2.pt[1]) }
               : qe \in Decompress(x1.pt[1]) }

\* encapsulate of either version, for three key pairs and a plaintext.
AkemEncapsulate ==
    /\ ak.pc = "key"
    /\ \E version \in Versions, ds \in Scalars, de \in Scalars, dr \in Scalars,
          len \in 0 .. MaxPlain, k \in Commitments, r \in Challenges :
        /\ version = "mac" => (k = CHOOSE x \in Commitments : TRUE)
                              /\ (r = CHOOSE x \in Challenges : TRUE)
        /\ LET e == IF version = "mac"
                    THEN Encapsulate(ds, Mul(ds, G), de, Mul(de, G), Mul(dr, G),
                                     Plaintext(len))
                    ELSE EncapsulateDv(ds, Mul(ds, G), de, Mul(de, G), Mul(dr, G),
                                       Plaintext(len), k, r)
           IN ak' = [ak EXCEPT
                       !.pc = IF e.kind = "Panic" THEN "done" ELSE "sent",
                       !.version = version, !.ds = ds, !.de = de, !.dr = dr,
                       !.plaintext = Plaintext(len), !.out = e.out, !.tbl = e.tbl,
                       !.chal = e.chal,
                       !.result = Outcome(IF e.kind = "Panic" THEN "Panic" ELSE "none",
                                          0, <<>>, e.identity, e.keyed)]
    /\ UNCHANGED notAk

AkemGive(kind, at, qs, input) ==
    /\ ak.pc = "sent"
    /\ ak' = [ak EXCEPT !.pc = "given", !.kind = kind, !.at = at, !.qs = qs,
                        !.input = input]
    /\ UNCHANGED notAk

\* decapsulate is given the ciphertext as it was made.
AkemGiveHonest == AkemGive("honest", 0, Mul(ak.ds, G), ak.out)

\* One bit of one byte of the ciphertext is changed.
AkemGiveFlipped ==
    \E at \in 1 .. Len(ak.out) :
        AkemGive("flipped", at, Mul(ak.ds, G), [ak.out EXCEPT ![at] = Flip(@)])

\* The ciphertext is cut short.
AkemGiveShort ==
    \E n \in 0 .. (Len(ak.out) - 1) :
        AkemGive("short", n, Mul(ak.ds, G), Take(ak.out, n))

\* decapsulate is given the identity in place of the sender's public key.
AkemGiveIdentity ==
    /\ ak.ds # 0
    /\ AkemGive("identity", 0, 0, ak.out)

AkemDecapsulate ==
    /\ ak.pc = "given"
    /\ \E res \in (IF ak.version = "mac"
                    THEN Decapsulate(ak.tbl, ak.dr, Mul(ak.dr, G), ak.qs, ak.input)
                    ELSE DecapsulateDv(ak.tbl, ak.chal, ak.dr, Mul(ak.dr, G), ak.qs,
                                       ak.input)) :
        ak' = [ak EXCEPT !.pc = "done",
                         !.result = [res EXCEPT
                                       !.identity = @ \/ ak.result.identity,
                                       !.keyed = @ \/ ak.result.keyed]]
    /\ UNCHANGED notAk

NextAkem ==
    \/ AkemEncapsulate
    \/ AkemGiveHonest
    \/ AkemGiveFlipped
    \/ AkemGiveShort
    \/ AkemGiveIdentity
    \/ AkemDecapsulate

SpecAkem == Init /\ [][NextAkem]_vars

(***************************************************************************)
(* The order of the labels in PrivateKey::derive.  Here the scalar of a    *)
(* label is an ideal hash of what hkd::label_scalar is given: the answers  *)
(* to different questions are independent unknowns, and a scalar is a      *)
(* number plus a bag of such answers, each named by its question.  Two     *)
(* scalars are equal when number and bag are; a point is written as its    *)
(* scalar.                                                                 *)
(***************************************************************************)
OrderLabels == {"a", "b", "c"}
Known(d) == [base |-> d, terms |-> EmptyBag]
\* A question that leaves the key out.
LabelQuery_LabelOnly(q, l) == <<Known(0), l>>
\* What hkd::label_scalar is asked: the running public key and the label.
LabelQuery(q, l) == <<q, l>>
Plus(x, answer) == [x EXCEPT !.terms = @ (+) SetToBag({answer})]
\* One step of the fold of PrivateKey::derive.
FoldStep(f, l) ==
    LET d == Plus(f.d, LabelQuery(f.q, l)) IN [d |-> d, q |-> d]
Reverse(labels) == [i \in 1 .. Len(labels) |-> labels[Len(labels) + 1 - i]]
Distinct(labels) ==
    \A i \in 1 .. Len(labels), j \in 1 .. Len(labels) : i # j => labels[i] # labels[j]

\* A private key and a sequence of distinct labels.
OrderKey ==
    /\ ko.pc = "key"
    /\ \E d \in Scalars, labels \in SeqsUpTo(OrderLabels, MaxLabels) :
        /\ Distinct(labels)
        /\ ko' = [pc |-> "derive", labels |-> labels, i |-> 0,
                  forward |-> [d |-> Known(d), q |-> Known(Mul(d, G))],
                  backward |-> [d |-> Known(d), q |-> Known(Mul(d, G))]]
    /\ UNCHANGED notKo

\* One step of PrivateKey::derive with the labels, and one step of
\* PrivateKey::derive with the labels in the opposite order.
OrderLabel ==
    /\ ko.pc = "derive"
    /\ ko.i < Len(ko.labels)
    /\ ko' = [ko EXCEPT !.i = @ + 1,
                        !.forward = FoldStep(@, ko.labels[ko.i + 1]),
                        !.backward = FoldStep(@, Reverse(ko.labels)[ko.i + 1])]
    /\ UNCHANGED notKo

OrderDone ==
    /\ ko.pc = "derive"
    /\ ko.i = Len(ko.labels)
    /\ ko' = [ko EXCEPT !.pc = "done"]
    /\ UNCHANGED notKo

NextOrder ==
    \/ OrderKey
    \/ OrderLabel
    \/ OrderDone

SpecOrder == Init /\ [][NextOrder]_vars

(***************************************************************************)
(* scaldf: derive_scalar and derive_point.  A key id is a sequence of      *)
(* characters; a label is hashed to a scalar by a duplex of its own, and   *)
(* squeeze_scalar never returns zero.  The hash is any function from the   *)
(* labels of a run to the scalars other than zero.                         *)
(***************************************************************************)
MaxKeyId == 4
MaxPart == 2
KEY_ID_DELIM == "/"
Letters == {"a", "b"}
KeyIds == SeqsUpTo(Letters \cup {KEY_ID_DELIM}, MaxKeyId)

RECURSIVE TrimStart(_)
TrimStart(s) ==
    IF s # <<>> /\ s[1] = KEY_ID_DELIM THEN TrimStart(Tail(s)) ELSE s
RECURSIVE TrimEnd(_)
TrimEnd(s) ==
    IF s # <<>> /\ s[Len(s)] = KEY_ID_DELIM THEN TrimEnd(Take(s, Len(s) - 1)) ELSE s
\* str::trim_matches(KEY_ID_DELIM)
TrimMatches(s) == TrimEnd(TrimStart(s))

\* str::split(KEY_ID_DELIM): the pieces between the delimiters; the empty
\* string has one piece, the empty one.
RECURSIVE Split(_)
Split(s) ==
    IF \E i \in 1 .. Len(s) : s[i] = KEY_ID_DELIM
    THEN LET i == CHOOSE j \in 1 .. Len(s) :
                    s[j] = KEY_ID_DELIM /\ \A k \in 1 .. (j - 1) : s[k] # KEY_ID_DELIM
         IN <<Take(s, i - 1)>> \o Split(Drop(s, i))
    ELSE <<s>>

LabelsOf(key_id) == Split(TrimMatches(key_id))
\* The duplex of a label: new, absorb the label, squeeze_scalar.
LabelHash(h, label) == h[label]

\* A fold whose offset for a label depends on the key it is added to, as
\* the label scalar of hkd does.
RECURSIVE FoldLabels_Keyed(_, _, _)
FoldLabels_Keyed(h, d, labels) ==
    IF labels = <<>> THEN d
    ELSE FoldLabels_Keyed(h, Add(d, Add(LabelHash(h, Head(labels)), d)),
                          Tail(labels))

RECURSIVE FoldLabels(_, _, _)
FoldLabels(h, d, labels) ==
    IF labels = <<>> THEN d
    ELSE FoldLabels(h, Add(d, LabelHash(h, Head(labels))), Tail(labels))

\* A derive_point that derives from the point's own value.
DerivePoint_FromPoint(h, q, key_id) ==
    Add(q, Mul(FoldLabels(h, q, LabelsOf(key_id)), G))
DeriveScalar(h, d, key_id) == FoldLabels(h, d, LabelsOf(key_id))
DerivePoint(h, q, key_id) == Add(q, Mul(DeriveScalar(h, 0, key_id), G))

\* The key id of a sequence of labels, as the tests write it: "/one/two".
RECURSIVE Join(_)
Join(labels) ==
    IF labels = <<>> THEN <<>>
    ELSE <<KEY_ID_DELIM>> \o Head(labels) \o Join(Tail(labels))
LabelSeqs == SeqsUpTo({<<c>> : c \in Letters}, MaxPart)

\* A scalar and a key id, and a hash for the labels of the key id.
ChooseKeyId ==
    /\ sd.pc = "inputs"
    /\ \E d \in Scalars, key_id \in KeyIds :
        \E h \in [Range(LabelsOf(key_id)) -> NonZero] :
            sd' = [sd EXCEPT !.pc = "chosen", !.kind = "one", !.d = d,
                             !.key_id = key_id, !.h = h]
    /\ UNCHANGED notSd

\* A scalar and two sequences of labels to derive with one after the other,
\* and a hash for their labels.
ChooseParts ==
    /\ sd.pc = "inputs"
    /\ \E d \in Scalars, first \in LabelSeqs, second \in LabelSeqs :
        LET used == Range(LabelsOf(Join(first))) \cup Range(LabelsOf(Join(second)))
                        \cup Range(LabelsOf(Join(first \o second)))
        IN \E h \in [used -> NonZero] :
            sd' = [sd EXCEPT !.pc = "chosen", !.kind = "parts", !.d = d,
                             !.first = first, !.second = second, !.h = h]
    /\ UNCHANGED notSd

\* derive_scalar of the scalar and derive_point of its point.
DeriveOne ==
    /\ sd.pc = "chosen"
    /\ sd.kind = "one"
    /\ sd' = [sd EXCEPT !.pc = "derived",
                        !.scalar = DeriveScalar(sd.h, sd.d, sd.key_id),
                        !.point = DerivePoint(sd.h, Mul(sd.d, G), sd.key_id)]
    /\ UNCHANGED notSd

\* Derivation with the first key id and then the second, and derivation
\* with the key id of all the labels.
DeriveParts ==
    /\ sd.pc = "chosen"
    /\ sd.kind = "parts"
    /\ LET k1 == Join(sd.first)
           k2 == Join(sd.second)
           k == Join(sd.first \o sd.second)
           q == Mul(sd.d, G)
       IN sd' = [sd EXCEPT
                   !.pc = "derived",
                   !.chained = [scalar |-> DeriveScalar(sd.h, DeriveScalar(sd.h, sd.d, k1), k2),
                                point |-> DerivePoint(sd.h, DerivePoint(sd.h, q, k1), k2)],
                   !.whole = [scalar |-> DeriveScalar(sd.h, sd.d, k),
                              point |-> DerivePoint(sd.h, q, k)]]
    /\ UNCHANGED notSd

NextScaldf ==
    \/ ChooseKeyId
    \/ ChooseParts
    \/ DeriveOne
    \/ DeriveParts

SpecScaldf == Init /\ [][NextScaldf]_vars

(***************************************************************************)
(* Digest::new: the digest of metadata values and a message.  The bytes    *)
(* squeezed name the state of the duplex, which is the sequence of its     *)
(* operations.                                                             *)
(***************************************************************************)
DIGEST_LEN == 1
MaxMeta == 2
\* Metadata values; the first and the third give the same bytes end to end
\* in either order.
MetaValues == {<<"a">>, <<"b">>, <<"a", "a">>}

RECURSIVE Concat(_)
Concat(values) == IF values = <<>> THEN <<>> ELSE Head(values) \o Concat(Tail(values))
\* One absorb of all the values, end to end.
AbsorbMetadata_Joined(S, metadata) == Absorb(S, Concat(metadata))
\* for v in metadata { digest.absorb(v) }
RECURSIVE AbsorbMetadata(_, _)
AbsorbMetadata(S, metadata) ==
    IF metadata = <<>> THEN S
    ELSE AbsorbMetadata(Absorb(S, Head(metadata)), Tail(metadata))

\* The state Digest::new squeezes from.
DigestState(metadata, message) ==
    AbsorbBlocks(AbsorbMetadata(New("veil.digest"), metadata), message)
DigestNew(tbl, metadata, message) ==
    SqueezeOut(tbl, DigestState(metadata, message), DIGEST_LEN)

DigestGiven(kind, metadata, message, metadata2, message2) ==
    /\ dg.pc = "inputs"
    /\ dg' = [dg EXCEPT !.pc = "given", !.kind = kind,
                        !.metadata = metadata, !.message = message,
                        !.metadata2 = metadata2, !.message2 = message2]
    /\ UNCHANGED notDg

\* The same metadata and message twice.
DigestSame ==
    \E metadata \in SeqsUpTo(MetaValues, MaxMeta), message \in Messages :
        DigestGiven("same", metadata, message, metadata, message)

\* Two metadata values in one order and in the other.
DigestSwapped ==
    \E x \in MetaValues, y \in MetaValues, message \in Messages :
        DigestGiven("swapped", <<x, y>>, message, <<y, x>>, message)

\* The same metadata and two messages.
DigestMessages ==
    \E metadata \in SeqsUpTo(MetaValues, MaxMeta), message \in Messages,
       message2 \in Messages :
        DigestGiven("messages", metadata, message, metadata, message2)

\* Digest::new of the first inputs and of the second.
DigestBoth ==
    /\ dg.pc = "given"
    /\ LET tbl == Reg(Reg(<<>>, DigestState(dg.metadata, dg.message)),
                      DigestState(dg.metadata2, dg.message2))
       IN dg' = [dg EXCEPT !.pc = "done",
                           !.a = DigestNew(tbl, dg.metadata, dg.message),
                           !.b = DigestNew(tbl, dg.metadata2, dg.message2)]
    /\ UNCHANGED notDg

NextDigest ==
    \/ DigestSame
    \/ DigestSwapped
    \/ DigestMessages
    \/ DigestBoth

SpecDigest == Init /\ [][NextDigest]_vars

(***************************************************************************)
(* String forms.  A public key, a signature and a digest are printed as   *)
(* the base58 text of their bytes and parsed back from it.  A byte is a    *)
(* number below ByteMod and a base58 digit a number below Radix; the two   *)
(* are not powers of one another, as 256 and 58 are not.  base58 writes    *)
(* one zero digit for every leading zero byte and the rest of the bytes as *)
(* one big-endian number.                                                  *)
(***************************************************************************)
ByteMod == 8
Radix == 3
MaxStr == 4
ALPHABET == <<"1", "2", "3">>
Chars == Range(ALPHABET) \cup {"l"}
Bytes == 0 .. (ByteMod - 1)
StringKinds == {"PublicKey", "Signature", "Digest"}

RECURSIVE LeadingZeros(_)
LeadingZeros(s) ==
    IF s # <<>> /\ Head(s) = 0 THEN 1 + LeadingZeros(Tail(s)) ELSE 0

RECURSIVE ValueOf(_, _)
ValueOf(s, base) ==
    IF s = <<>> THEN 0
    ELSE ValueOf(SubSeq(s, 1, Len(s) - 1), base) * base + s[Len(s)]

RECURSIVE DigitsOf(_, _)
DigitsOf(n, base) ==
    IF n = 0 THEN <<>> ELSE Append(DigitsOf(n \div base, base), n % base)

Rebase(s, from, to) ==
    [i \in 1 .. LeadingZeros(s) |-> 0] \o DigitsOf(ValueOf(s, from), to)

Bs58Encode_NoLeadingZeros(bytes) ==
    LET digits == DigitsOf(ValueOf(bytes, ByteMod), Radix)
    IN  [i \in 1 .. Len(digits) |-> ALPHABET[digits[i] + 1]]
Bs58Encode(bytes) ==
    LET digits == Rebase(bytes, ByteMod, Radix)
    IN  [i \in 1 .. Len(digits) |-> ALPHABET[digits[i] + 1]]

\* bs58::decode(s).into_vec(): an error for a character outside the alphabet
Bs58Decode(s) ==
    IF \E i \in 1 .. Len(s) : s[i] \notin Range(ALPHABET)
    THEN [ok |-> FALSE, bytes |-> <<>>]
    ELSE LET digits == [i \in 1 .. Len(s) |->
                           (CHOOSE k \in 1 .. Len(ALPHABET) : ALPHABET[k] = s[i]) - 1]
         IN  [ok |-> TRUE, bytes |-> Rebase(digits, Radix, ByteMod)]

\* The canonical encoding of a point: the identity is the zero byte, and
\* some bytes are the encoding of no point.
PointByte(q) == IF q = 0 THEN 0 ELSE q + 2
to_canonical_encoding(q) == <<PointByte(q)>>
HasLength_AtLeast(bytes, n) == Len(bytes) >= n
HasLength(bytes, n) == Len(bytes) = n
from_canonical_encoding(bytes) ==
    IF HasLength(bytes, POINT_LEN) /\ \E q \in NonZero : PointByte(q) = bytes[1]
    THEN [ok |-> TRUE, q |-> CHOOSE q \in NonZero : PointByte(q) = bytes[1]]
    ELSE [ok |-> FALSE, q |-> 0]

StringValues(kind) ==
    CASE kind = "PublicKey" -> NonZero
      [] kind = "Signature" -> [1 .. SIGNATURE_LEN -> Bytes]
      [] kind = "Digest" -> [1 .. DIGEST_LEN -> Bytes]

\* Display::fmt of PublicKey, Signature and Digest
Format(kind, value) ==
    IF kind = "PublicKey" THEN Bs58Encode(to_canonical_encoding(value))
    ELSE Bs58Encode(value)

ParseErr(e) == [ok |-> FALSE, err |-> e, value |-> <<>>]
ParseOk(v) == [ok |-> TRUE, err |-> "none", value |-> v]

\* FromStr::from_str of PublicKey, Signature and Digest
Parse(kind, s) ==
    LET b == Bs58Decode(s)
    IN  IF kind = "PublicKey"
        THEN IF b.ok /\ from_canonical_encoding(b.bytes).ok
             THEN ParseOk(from_canonical_encoding(b.bytes).q)
             ELSE ParseErr("PublicKeyError")
        ELSE IF ~b.ok THEN ParseErr("InvalidEncoding")
        ELSE IF HasLength(b.bytes, IF kind = "Signature" THEN SIGNATURE_LEN
                                                       ELSE DIGEST_LEN)
             THEN ParseOk(b.bytes)
             ELSE ParseErr("InvalidLength")

\* a value is printed
StrFormat ==
    /\ sf.pc = "start"
    /\ \E kind \in StringKinds : \E value \in StringValues(kind) :
           sf' = [sf EXCEPT !.pc = "text", !.kind = kind, !.origin = "formatted",
                            !.value = value, !.text = Format(kind, value)]
    /\ UNCHANGED notSf

\* any text is handed to a parser
StrGive ==
    /\ sf.pc = "start"
    /\ \E kind \in StringKinds : \E s \in SeqsUpTo(Chars, MaxStr) :
           sf' = [sf EXCEPT !.pc = "text", !.kind = kind, !.origin = "given",
                            !.text = s]
    /\ UNCHANGED notSf

\* the text is parsed
StrParse ==
    /\ sf.pc = "text"
    /\ sf' = [sf EXCEPT !.pc = "done", !.parsed = Parse(sf.kind, sf.text)]
    /\ UNCHANGED notSf

NextStrings == StrFormat \/ StrGive \/ StrParse
SpecStrings == Init /\ [][NextStrings]_vars

(***************************************************************************)
(* SecretKey::encrypt and SecretKey::decrypt.  veil.pbenc: a memory-hard   *)
(* function of the passphrase and the two cost parameters gives the key of *)
(* a keyed duplex, the salt is absorbed and the secret is sealed; the      *)
(* output is time, space, salt and the sealed secret.                      *)
(***************************************************************************)
SECRET_KEY_LEN == 2
U32_LEN == 1
SALT_LEN == 1
MaxCost == 2
PBENC_OVERHEAD == U32_LEN + U32_LEN + SALT_LEN + TAG_LEN
Passphrases == {"hunter2", "hunter3"}
Secrets == {<<Num(1), Num(2)>>, <<Num(2), Num(1)>>}

PbencInit(passphrase, time, space, salt) ==
    Absorb(IntoKeyed(<<"mhf", passphrase, time, space>>), salt)

PbencEncrypt(tbl, passphrase, time, space, salt, plaintext) ==
    LET sl == Seal(tbl, PbencInit(passphrase, <<time>>, <<space>>, salt), plaintext)
    IN  [tbl |-> sl.tbl, out |-> <<time, space>> \o salt \o sl.out]

PbencDecrypt(tbl, passphrase, ciphertext) ==
    LET time == Take(ciphertext, U32_LEN)
        space == Take(Drop(ciphertext, U32_LEN), U32_LEN)
        salt == Take(Drop(ciphertext, U32_LEN + U32_LEN), SALT_LEN)
        us == Unseal(tbl, PbencInit(passphrase, time, space, salt),
                     Drop(ciphertext, U32_LEN + U32_LEN + SALT_LEN))
    IN  IF us.ok THEN [ok |-> TRUE, pt |-> us.pt] ELSE [ok |-> FALSE, pt |-> <<>>]

\* SecretKey::encrypt
SecretKeyEncrypt_Truncated(tbl, r, passphrase, time, space, salt) ==
    PbencEncrypt(tbl, passphrase, time, space, salt, Take(r, SECRET_KEY_LEN - 1))
SecretKeyEncrypt(tbl, r, passphrase, time, space, salt) ==
    PbencEncrypt(tbl, passphrase, time, space, salt, r)

LengthOk_Always(ciphertext) == TRUE
LengthOk(ciphertext) == Len(ciphertext) = SECRET_KEY_LEN + PBENC_OVERHEAD

\* SecretKey::decrypt: attempted says whether pbenc::decrypt was called
SecretKeyDecrypt(tbl, passphrase, ciphertext) ==
    IF ~LengthOk(ciphertext)
    THEN [attempted |-> FALSE, ok |-> FALSE, err |-> "InvalidCiphertext", key |-> <<>>]
    ELSE LET pb == PbencDecrypt(tbl, passphrase, ciphertext)
         IN  IF pb.ok
             THEN [attempted |-> TRUE, ok |-> TRUE, err |-> "none", key |-> pb.pt]
             ELSE [attempted |-> TRUE, ok |-> FALSE, err |-> "InvalidCiphertext",
                   key |-> <<>>]

\* SecretKey::private_key: the root private key is a hash of the secret
root_key(r) == <<"veil.hkd.root", r>>

SkEncrypt ==
    /\ sk.pc = "encrypt"
    /\ \E r \in Secrets, passphrase \in Passphrases,
          time \in 1 .. MaxCost, space \in 1 .. MaxCost, salt \in {Num(1), Num(2)} :
           LET e == SecretKeyEncrypt(<<>>, r, passphrase, Num(time), Num(space), <<salt>>)
           IN  sk' = [sk EXCEPT !.pc = "give", !.r = r, !.passphrase = passphrase,
                                !.out = e.out, !.tbl = e.tbl]
    /\ UNCHANGED notSk

SkGive(kind, passphrase, input) ==
    /\ sk.pc = "give"
    /\ sk' = [sk EXCEPT !.pc = "decrypt", !.kind = kind, !.given = passphrase,
                        !.input = input]
    /\ UNCHANGED notSk

SkGiveHonest == SkGive("honest", sk.passphrase, sk.out)
SkGiveWrongPassphrase ==
    \E p \in Passphrases \ {sk.passphrase} : SkGive("passphrase", p, sk.out)
SkGiveFlipped ==
    \E i \in 1 .. Len(sk.out) :
        SkGive("flipped", sk.passphrase, [sk.out EXCEPT ![i] = Flip(sk.out[i])])
SkGiveShort ==
    \E n \in 0 .. (Len(sk.out) - 1) : SkGive("short", sk.passphrase, Take(sk.out, n))
SkGiveLong == SkGive("long", sk.passphrase, Append(sk.out, Zero))

SkDecrypt ==
    /\ sk.pc = "decrypt"
    /\ LET d == SecretKeyDecrypt(sk.tbl, sk.given, sk.input)
       IN  sk' = [sk EXCEPT !.pc = "done", !.attempted = d.attempted, !.ok = d.ok,
                            !.err = d.err, !.key = d.key]
    /\ UNCHANGED notSk

NextSecret ==
    \/ SkEncrypt
    \/ SkGiveHonest \/ SkGiveWrongPassphrase \/ SkGiveFlipped
    \/ SkGiveShort \/ SkGiveLong
    \/ SkDecrypt
SpecSecret == Init /\ [][NextSecret]_vars

(***************************************************************************)
(* Absorb::hedge.  The duplex is an ideal hash of what it was given, so    *)
(* the bytes squeezed from a state are named by the state.  hedge is       *)
(* followed on one duplex, and the values mres::encrypt hedges are         *)
(* followed over two calls.                                                *)
(***************************************************************************)
RngOutputs == {<<"rng", 1>>, <<"rng", 2>>}
HedgeSecrets == {1, 2}
Closures == {"scalar", "triple"}
Squeezed(S, n) == [i \in 1 .. n |-> <<"sq", S, i>>]

\* the three values mres::encrypt's closure squeezes from the clone
SqueezeTriple(clone) ==
    LET c2 == AfterSqueeze(clone, SCALAR_LEN)
        c3 == AfterSqueeze(c2, DEK_LEN)
    IN  [ephemeral |-> Squeezed(clone, SCALAR_LEN), dek |-> Squeezed(c2, DEK_LEN),
         nonce |-> Squeezed(c3, NONCE_LEN)]

\* f(&mut clone)
Closure(f, clone) ==
    IF f = "scalar" THEN Squeezed(clone, SCALAR_LEN)
    ELSE LET t == SqueezeTriple(clone) IN t.ephemeral \o t.dek \o t.nonce

\* A hedge that absorbs into the duplex it was called on.
Hedge_InPlace(S, secret, random, f) ==
    LET clone == Absorb(Absorb(S, secret), <<random>>)
    IN  [self |-> clone, clone |-> clone, value |-> Closure(f, clone)]
Hedge(S, secret, random, f) ==
    LET clone == Absorb(Absorb(S, secret), <<random>>)
    IN  [self |-> S, clone |-> clone, value |-> Closure(f, clone)]

\* mres::encrypt up to the hedge: the reader has not been read yet
EncryptHedged(ds, random, reader) ==
    LET S0 == Absorb(New("veil.mres"), <<Pt(Mul(ds, G))>>)
    IN  SqueezeTriple(Hedge(S0, <<Sc(ds)>>, random, "triple").clone)

\* hedge is called on a duplex that has absorbed a key and a message, and
\* the caller squeezes afterwards
HgHedge ==
    /\ hg.pc = "start"
    /\ \E d \in HedgeSecrets, message \in Messages, random \in RngOutputs,
          f \in Closures :
           LET S == SchnorrInit(Mul(d, G), message)
               h == Hedge(S, <<Sc(d)>>, random, f)
           IN  hg' = [hg EXCEPT !.pc = "hedged", !.before = S, !.secret = <<Sc(d)>>,
                                !.random = <<random>>, !.f = f, !.self = h.self,
                                !.clone = h.clone, !.value = h.value,
                                !.out = Squeezed(h.self, NONCE_LEN)]
    /\ UNCHANGED notHg

HgEncrypt(from, to, field) ==
    /\ hg.pc = from
    /\ \E ds \in HedgeSecrets, random \in RngOutputs, plaintext \in Messages :
           LET h == EncryptHedged(ds, random, plaintext)
           IN  hg' = [hg EXCEPT !.pc = to,
                                ![field] = [ds |-> ds, rnd |-> random,
                                            plaintext |-> plaintext,
                                            ephemeral |-> h.ephemeral,
                                            dek |-> h.dek, nonce |-> h.nonce]]
    /\ UNCHANGED notHg

HgEncryptFirst == HgEncrypt("start", "second", "a")
HgEncryptSecond == HgEncrypt("second", "both", "b")

NextHedge == HgHedge \/ HgEncryptFirst \/ HgEncryptSecond
SpecHedge == Init /\ [][NextHedge]_vars

(***************************************************************************)
(* The writer of PrivateKey::encrypt and PrivateKey::decrypt.  mres writes *)
(* its output piece by piece with write_all to a BufWriter around the      *)
(* caller's writer; the BufWriter is a temporary that is dropped when the  *)
(* call returns.  Bytes are counted, not named; the caller's writer fails  *)
(* on its fail_at-th call (never when fail_at = 0).                        *)
(***************************************************************************)
BufCap == 3
MaxChunks == 3
ChunkSizes == {1, 2, 4}
IoOps == {"encrypt", "decrypt"}

\* one call of the caller's writer with n bytes
InnerWrite(w, n) ==
    IF w.calls + 1 = w.fail_at
    THEN [w EXCEPT !.calls = @ + 1, !.failed = TRUE, !.ok = FALSE]
    ELSE [w EXCEPT !.calls = @ + 1, !.sink = @ + n, !.ok = TRUE]

\* BufWriter::flush_buf
FlushBuf(w) ==
    IF w.buffered = 0 THEN [w EXCEPT !.ok = TRUE]
    ELSE LET w1 == InnerWrite(w, w.buffered)
         IN  IF w1.ok THEN [w1 EXCEPT !.buffered = 0] ELSE w1

\* BufWriter::write_all
BufWriteAll(w, n) ==
    IF n < BufCap - w.buffered THEN [w EXCEPT !.buffered = @ + n, !.ok = TRUE]
    ELSE LET w1 == IF n > BufCap - w.buffered THEN FlushBuf(w)
                   ELSE [w EXCEPT !.ok = TRUE]
         IN  IF ~w1.ok THEN w1
             ELSE IF n >= BufCap THEN InnerWrite(w1, n)
             ELSE [w1 EXCEPT !.buffered = @ + n]

\* Drop for BufWriter: the buffer is flushed and the outcome discarded.
DropBufWriter(w) == [FlushBuf(w) EXCEPT !.ok = TRUE]

IoWriter == [buffered |-> io.buffered, sink |-> io.sink, calls |-> io.calls,
             failed |-> io.failed, fail_at |-> io.fail_at, ok |-> TRUE]

\* PrivateKey::encrypt or decrypt is called
IoCall ==
    /\ io.pc = "start"
    /\ \E op \in IoOps, chunks \in SeqsUpTo(ChunkSizes, MaxChunks) \ {<<>>},
          fail_at \in 0 .. (MaxChunks + 1) :
           io' = [io EXCEPT !.pc = "write", !.op = op, !.chunks = chunks,
                            !.fail_at = fail_at]
    /\ UNCHANGED notIo

\* writer.write_all(..)? in mres: an error ends the call, and the BufWriter
\* is dropped
IoWrite ==
    /\ io.pc = "write"
    /\ io.chunks # <<>>
    /\ LET w == BufWriteAll(IoWriter, Head(io.chunks))
           d == DropBufWriter(w)
       IN  IF w.ok
           THEN io' = [io EXCEPT !.chunks = Tail(@), !.buffered = w.buffered,
                                 !.sink = w.sink, !.calls = w.calls,
                                 !.failed = w.failed,
                                 !.count = @ + Head(io.chunks)]
           ELSE io' = [io EXCEPT !.pc = "done", !.buffered = d.buffered,
                                 !.sink = d.sink, !.calls = d.calls,
                                 !.failed = TRUE, !.result = "Err(io)"]
    /\ UNCHANGED notIo

\* mres returns Ok(written), and the BufWriter is dropped
IoReturn ==
    /\ io.pc = "write"
    /\ io.chunks = <<>>
    /\ LET d == DropBufWriter(IoWriter)
       IN  io' = [io EXCEPT !.pc = "done", !.buffered = d.buffered, !.sink = d.sink,
                            !.calls = d.calls, !.failed = d.failed,
                            !.result = "Ok(count)"]
    /\ UNCHANGED notIo

NextIo == IoCall \/ IoWrite \/ IoReturn
SpecIo == Init /\ [][NextIo]_vars

(***************************************************************************)
(* dvsig: designated-verifier signatures.  The signature is the commitment *)
(* point u = [k]G and the point [s]Q_v with s = k + r d_s, where r is what *)
(* the protocol yields after the two keys, the message and u.              *)
(***************************************************************************)
DvSigners == {1, 2}
DvVerifiers == {2, 3}

\* A transcript that leaves the message out.
DvsigTranscript_NoMessage(qs, qv, m, u) ==
    Absorb(Absorb(Absorb(New("veil.dvsig"), <<Pt(qs)>>), <<Pt(qv)>>), <<Pt(u)>>)
DvsigTranscript(qs, qv, m, u) ==
    Absorb(Absorb(Absorb(Absorb(New("veil.dvsig"), <<Pt(qs)>>), <<Pt(qv)>>), m),
           <<Pt(u)>>)

\* sign, with the hedged commitment scalar k and the challenge r
DvsigSign(ds, qs, qv, m, k, r) ==
    LET u == Mul(k, G)
    IN  [sig |-> <<Pt(u), Pt(SignaturePoint(k, r, ds, qv))>>,
         chal |-> [st |-> DvsigTranscript(qs, qv, m, u), r |-> r]]

\* verify: the results it can return, one for every pair of points the two
\* halves can decompress to.  A challenge derived from another transcript is
\* unrelated to the signature point.
DvsigVerify(chal, d_v, qv, qs, m, sig) ==
    {IF u = NoPoint \/ kp = NoPoint THEN FALSE
     ELSE LET rp == Challenge(chal, DvsigTranscript(qs, qv, m, u))
          IN  rp # Fresh /\ kp = CounterfactualPoint(u, qs, rp, d_v)
     : u \in Decompress(sig[1]), kp \in Decompress(sig[2])}

DvSign ==
    /\ dvs.pc = "sign"
    /\ \E ds \in DvSigners, d_v \in DvVerifiers, m \in Messages,
          k \in NonZero, r \in Scalars :
           LET sg1 == DvsigSign(ds, Mul(ds, G), Mul(d_v, G), m, k, r)
           IN  dvs' = [dvs EXCEPT !.pc = "give", !.ds = ds, !.dv = d_v, !.m = m,
                                  !.s = Add(k, Mul(r, ds)),
                                  !.sig = sg1.sig, !.chal = sg1.chal]
    /\ UNCHANGED notDvs

DvHonest == [dv |-> dvs.dv, qv |-> Mul(dvs.dv, G), qs |-> Mul(dvs.ds, G),
             m |-> dvs.m, sig |-> dvs.sig]
DvGive(kind, given) ==
    /\ dvs.pc = "give"
    /\ dvs' = [dvs EXCEPT !.pc = "verify", !.kind = kind, !.given = given]
    /\ UNCHANGED notDvs

DvGiveHonest == DvGive("honest", DvHonest)
DvGiveOtherPrivateKey ==
    \E d \in Scalars \ {dvs.dv} : DvGive("d_v", [DvHonest EXCEPT !.dv = d])
DvGiveOtherVerifier ==
    \E q \in Scalars \ {Mul(dvs.dv, G)} : DvGive("q_v", [DvHonest EXCEPT !.qv = q])
DvGiveOtherSigner ==
    \E q \in Scalars \ {Mul(dvs.ds, G)} : DvGive("q_s", [DvHonest EXCEPT !.qs = q])
DvGiveOtherMessage ==
    \E m \in Messages \ {dvs.m} : DvGive("m", [DvHonest EXCEPT !.m = m])
DvGiveOtherHalf ==
    /\ dvs.pc = "give"
    /\ \E i \in 1 .. 2 :
        \E c \in {Flip(dvs.sig[i])} \cup {Pt(q) : q \in Scalars \ {dvs.sig[i][2]}} :
            DvGive(IF i = 1 THEN "sig1" ELSE "sig2",
                   [DvHonest EXCEPT !.sig = [dvs.sig EXCEPT ![i] = c]])

DvVerify ==
    /\ dvs.pc = "verify"
    /\ \E b \in DvsigVerify(dvs.chal, dvs.given.dv, dvs.given.qv, dvs.given.qs,
                            dvs.given.m, dvs.given.sig) :
           dvs' = [dvs EXCEPT !.pc = "done", !.result = b]
    /\ UNCHANGED notDvs

NextDvsig ==
    \/ DvSign
    \/ DvGiveHonest \/ DvGiveOtherPrivateKey \/ DvGiveOtherVerifier
    \/ DvGiveOtherSigner \/ DvGiveOtherMessage \/ DvGiveOtherHalf
    \/ DvVerify
SpecDvsig == Init /\ [][NextDvsig]_vars

(***************************************************************************)
(* The streaming Signer and Verifier of schnorr.rs over STROBE.  The       *)
(* STROBE state is followed byte by byte: h names everything permuted so   *)
(* far, cur is what has been absorbed since the last permutation, and an   *)
(* operation begins by absorbing where the last one began and its flags.   *)
(***************************************************************************)
STROBE_RATE == 3
MaxStream == 3
MaxWrites == MaxStream
StreamMessages == SeqsUpTo(Symbols, MaxStream)
SEND_CLR == {"A", "T"}
RECV_CLR == {"I", "A", "T"}
AD == {"A"}
PRF == {"I", "A", "C"}

StrobeNew == [h |-> <<"init">>, cur |-> <<>>, pos_begin |-> 0, role |-> "none"]
RunF(st) == [st EXCEPT !.h = <<"f", st.h, st.cur>>, !.cur = <<>>, !.pos_begin = 0]
AbsorbByte(st, b) ==
    LET st1 == [st EXCEPT !.cur = Append(@, b)]
    IN  IF Len(st1.cur) = STROBE_RATE THEN RunF(st1) ELSE st1
Octets(data) == [i \in 1 .. Len(data) |-> <<"byte", data[i]>>]
RECURSIVE AbsorbBytes(_, _)
AbsorbBytes(st, data) ==
    IF data = <<>> THEN st ELSE AbsorbBytes(AbsorbByte(st, Head(data)), Tail(data))

\* begin_op: the first transport operation fixes the role, and the receiver's
\* flags are absorbed with I inverted
BeginOp(st, flags) ==
    LET role == IF "T" \in flags /\ st.role = "none"
                THEN (IF "I" \in flags THEN "receiver" ELSE "sender")
                ELSE st.role
        eff == IF "T" \in flags /\ role = "receiver"
               THEN (flags \ {"I"}) \cup ({"I"} \ flags)
               ELSE flags
        st1 == AbsorbBytes([st EXCEPT !.role = role, !.pos_begin = Len(st.cur) + 1],
                           <<Num(st.pos_begin), <<"flags", eff>> >>)
    IN  IF eff \cap {"C", "K"} # {} /\ st1.cur # <<>> THEN RunF(st1) ELSE st1

\* An operate that begins a new operation with every call.
Operate_Framed(st, flags, data, more) == AbsorbBytes(BeginOp(st, flags), data)
\* operate: with more set the data continues the operation under way
Operate(st, flags, data, more) ==
    AbsorbBytes(IF more THEN st ELSE BeginOp(st, flags), data)

\* what the hash has been given: the role is not part of it
Sponge(st) == <<st.h, st.cur, st.pos_begin>>

\* Signer::sign, with the hedged scalar k and the challenge c prf yields
SignerSign(st, d, k, c) ==
    LET st1 == Operate(st, AD, <<Pt(Mul(d, G))>>, FALSE)
        st2 == Operate(st1, AD, <<Pt(Mul(k, G))>>, FALSE)
    IN  [sig |-> <<Sc(c), Sc(Add(Mul(d, c), k))>>,
         chal |-> [st |-> Sponge(BeginOp(st2, PRF)), r |-> c]]

\* Verifier::verify
VerifierVerify(st, chal, q, sig) ==
    LET c == sig[1][2]
        s == sig[2][2]
        r_g == Add(Mul(s, G), Neg(Mul(c, q)))
        st1 == Operate(st, AD, <<Pt(q)>>, FALSE)
        st2 == Operate(st1, AD, <<Pt(r_g)>>, FALSE)
    IN  Challenge(chal, Sponge(BeginOp(st2, PRF))) = c

\* the messages that differ from m in one byte
OneByteOff(m) ==
    {x \in StreamMessages :
        Len(x) = Len(m) /\ Cardinality({i \in 1 .. Len(m) : x[i] # m[i]}) = 1}

\* Signer::new and the message it will be fed
SwNew ==
    /\ sw.pc = "start"
    /\ \E d \in SenderKeys, m \in StreamMessages :
           sw' = [sw EXCEPT !.pc = "signer", !.d = d, !.m = m, !.rest = m,
                            !.strobe = Operate(StrobeNew, SEND_CLR, <<>>, FALSE)]
    /\ UNCHANGED notSw

\* Write::write of Signer and of Verifier, with the next n bytes
SwWrite(at, flags, field) ==
    /\ sw.pc = at
    /\ Len(sw[field]) < MaxWrites
    /\ \E n \in 0 .. Len(sw.rest) :
           sw' = [sw EXCEPT !.strobe = Operate(@, flags, Octets(Take(sw.rest, n)), TRUE),
                            !.rest = Drop(@, n),
                            ![field] = Append(@, n)]
    /\ UNCHANGED notSw

SignerWrite == SwWrite("signer", SEND_CLR, "schunks")
VerifierWrite == SwWrite("verifier", RECV_CLR, "vchunks")

\* Signer::sign once the whole message is written, then Verifier::new
SwSign ==
    /\ sw.pc = "signer"
    /\ sw.rest = <<>>
    /\ \E k \in Commitments, c \in Challenges, vm \in OneByteOff(sw.m) \cup {sw.m} :
           LET sg1 == SignerSign(sw.strobe, sw.d, k, c)
           IN  sw' = [sw EXCEPT !.pc = "verifier", !.sig = sg1.sig, !.chal = sg1.chal,
                                !.vm = vm, !.rest = vm,
                                !.strobe = Operate(StrobeNew, RECV_CLR, <<>>, FALSE)]
    /\ UNCHANGED notSw

SwVerify ==
    /\ sw.pc = "verifier"
    /\ sw.rest = <<>>
    /\ sw' = [sw EXCEPT !.pc = "done",
                        !.result = VerifierVerify(sw.strobe, sw.chal,
                                                  Mul(sw.d, G), sw.sig)]
    /\ UNCHANGED notSw

NextStream == SwNew \/ SignerWrite \/ SwSign \/ VerifierWrite \/ SwVerify
SpecStream == Init /\ [][NextStream]_vars

(***************************************************************************)
(* The properties.                                                         *)
(***************************************************************************)
Done(kind) == pc = "done" /\ scen.kind = kind
SealedLen(len) == len + ((len \div BLOCK_LEN) + 1) * TAG_LEN

\* C1: MRES round trip.  For every plaintext length, every position of the
\* receiver in the list and every padding, decrypt of what encrypt wrote,
\* with the receiver's key pair and the sender's public key, writes the
\* plaintext and returns its length.
C1_RoundTrip ==
    Done("honest") =>
        /\ result = [kind |-> "Ok", n |-> msg.len]
        /\ wout = Plaintext(msg.len)

C3_BitFlip == Done("flip") => result.kind = "InvalidCiphertext"

\* C4: decrypt with a wrong sender public key, a wrong receiver private key
\* or a wrong receiver public key returns InvalidCiphertext.
C4_WrongKeys == Done("keys") => result.kind = "InvalidCiphertext"

C4_Witness ==
    /\ Done("keys")
    /\ result.kind = "InvalidCiphertext"
    /\ keys.qr \in Range(msg.receivers)
    /\ keys.qs = msg.qs
    /\ keys.qr # Mul(keys.dr, G)

\* C5: decrypt of any proper prefix of a cipher text returns
\* InvalidCiphertext: no panic, no I/O error, no Ok.
C5_Truncated == Done("trunc") => result.kind = "InvalidCiphertext"

\* C6: decrypt returns Ok(n) only when a header decrypted, every block
\* unsealed and the signature verified under the ephemeral key of that
\* header, and n is the number of plaintext bytes written; every other run
\* ends in an error.
C6_OkOnlyIf ==
    pc = "done" =>
        /\ result.kind = "Ok" =>
              /\ hdr.found
              /\ hdr.qe = msg.qe
              /\ trace.sigok
              /\ rd = Len(ct)
              /\ result.n = Len(wout)
        /\ result.kind # "Ok" => result.kind \in {"InvalidCiphertext", "Io"}

\* C7: PrivateKey::encrypt with r recipients and f fakes writes r + f
\* headers and records r + f as the receiver count, and wherever the shuffle
\* puts a recipient's header, that recipient's decrypt with the sender's
\* public key returns the plaintext.
C7_Fakes ==
    LET count == Len(msg.recipients) + msg.fakes
    IN /\ pc # "encrypt" =>
            /\ Len(msg.receivers) = count
            /\ Len(msg.out) = NONCE_LEN + count * ENC_HEADER_LEN + msg.padding
                                + SealedLen(msg.len) + SIGNATURE_LEN
       /\ pc \in {"message", "verify"} => hi = count /\ recv_count = count
       /\ Done("honest") =>
            /\ result = [kind |-> "Ok", n |-> msg.len]
            /\ wout = Plaintext(msg.len)
            /\ hi = count

C7_Witness ==
    /\ Done("honest")
    /\ msg.recipients = <<Mul(2, G)>>
    /\ msg.fakes = 1
    /\ msg.receivers[2] = Mul(2, G)
    /\ msg.receivers[1] # Mul(2, G)
    /\ hdr.at = 2
    /\ msg.len = BLOCK_LEN
    /\ result.kind = "Ok"

\* C8: Schnorr completeness.  For every signer and every message, the empty
\* one included, and whatever the hedge returned, verify of the signer's
\* public key, the message and the signature of it succeeds.
C8_Completeness ==
    (sg.pc = "done" /\ sg.kind = "honest") => sg.result = "Ok"

C8_Witness ==
    /\ sg.pc = "done"
    /\ sg.kind = "honest"
    /\ sg.message = <<>>
    /\ sg.r = 0
    /\ sg.result = "Ok"

\* C9: Schnorr rejection.  verify fails for another message, for another
\* public key, and for a signature with any bit changed, a proof scalar that
\* is not canonical included.
C9_Rejection ==
    (sg.pc = "done" /\ sg.kind \in {"message", "key", "flip"}) =>
        sg.result = "InvalidSignature"

C9_Witness ==
    /\ sg.pc = "done"
    /\ sg.kind = "flip"
    /\ sg.at = SIGNATURE_LEN
    /\ sg.s \in Scalars
    /\ sg.result = "InvalidSignature"

\* C10: derivation is the same on both sides.  For every private key and
\* every sequence of labels, the empty one included, the public key of the
\* derived private key is the derived public key.
C10_DeriveSymmetric ==
    hk.pc \in {"derive", "done"} => hk.q = hk.p /\ hk.q = Mul(hk.d, G)

C10_Witness ==
    /\ hk.pc = "done"
    /\ Len(hk.labels) = 2
    /\ hk.labels[1] # hk.labels[2]
    /\ hk.d # hk.root
    /\ hk.q = hk.p

\* C11: derivation composes.  For every key and all sequences of labels L1
\* and L2, deriving with L1 and then with L2 gives the key derived with
\* L1 followed by L2, for scalars and for points.
C11_Composes ==
    (sd.pc = "derived" /\ sd.kind = "parts") => sd.chained = sd.whole

\* The folds of PrivateKey::derive compose: the calls made one after the
\* other end at the key of one call with all their labels.
HkdComposes ==
    hk.pc = "done" => hk.key = hk.whole

\* C12: the order of the labels matters in PrivateKey::derive.  For distinct
\* labels, the key derived with the labels in one order differs from the
\* key derived from the same private key with the labels in the opposite
\* order, such as a, b, c and c, b, a.
C12_OrderMatters ==
    (ko.pc = "done" /\ Len(ko.labels) >= 2) => ko.forward.q # ko.backward.q

C12_Witness ==
    /\ ko.pc = "done"
    /\ ko.labels = <<"a", "b", "c">>
    /\ ko.forward.q # ko.backward.q
    /\ ko.forward.q.base = ko.backward.q.base

\* C13: every PrivateKey reached from SecretKey::private_key by any number
\* of PrivateKey::derive calls, calls with an empty label list included,
\* holds the public key of its scalar: pk.q = d*G.
C13_KeyPair ==
    hk.pc # "key" => hk.key.q = Mul(hk.key.d, G)

C13_Witness ==
    /\ hk.pc = "done"
    /\ hk.calls = 2
    /\ hk.labels = <<>>
    /\ Len(hk.all) = 2
    /\ hk.key.d # hk.root
    /\ hk.key.d # 1
    /\ hk.key.q = Mul(hk.key.d, G)

\* C14: for every scalar d and every key id, derive_point of d*G is
\* derive_scalar of d, times G.
C14_PointOfScalar ==
    (sd.pc = "derived" /\ sd.kind = "one") => sd.point = Mul(sd.scalar, G)

C14_Witness ==
    /\ sd.pc = "derived"
    /\ sd.key_id = <<"a", "/", "b">>
    /\ sd.h[<<"a">>] # sd.h[<<"b">>]
    /\ sd.d # 0
    /\ sd.point = Mul(sd.scalar, G)
    /\ sd.scalar # sd.d

\* C15: with an empty key id, or one of delimiters only, derive_scalar
\* returns the scalar and derive_point the point it was given.
C15_EmptyKeyId ==
    (sd.pc = "derived" /\ sd.kind = "one" /\ TrimMatches(sd.key_id) = <<>>) =>
        sd.scalar = sd.d /\ sd.point = Mul(sd.d, G)

\* C16: the round trip of one receiver.  For all key pairs of sender,
\* ephemeral and receiver and every plaintext, the empty one included,
\* decapsulate with the receiver's key pair and the sender's public key
\* returns the ephemeral public key and the plaintext that encapsulate was
\* given.
C16_AkemRoundTrip ==
    (ak.pc = "done" /\ ak.kind = "honest" /\ ak.ds # 0 /\ ak.de # 0 /\ ak.dr # 0) =>
        /\ ak.result.kind = "Some"
        /\ ak.result.qe = Mul(ak.de, G)
        /\ ak.result.pt = ak.plaintext

C16_Witness ==
    /\ ak.pc = "done"
    /\ ak.kind = "honest"
    /\ ak.version = "dv"
    /\ ak.ds # 0 /\ ak.de # 0 /\ ak.dr # 0
    /\ ak.chal.r # 0
    /\ ak.plaintext = <<>>
    /\ ak.result.kind = "Some"

\* C17: the output of encapsulate is as long as the plaintext plus OVERHEAD,
\* where OVERHEAD is the length of a point plus the 16 bytes of the MAC, for
\* every length of the plaintext; and decapsulate returns None for every
\* input shorter than OVERHEAD.
C17_Overhead ==
    (ak.version = "mac" /\ ak.pc # "key") =>
        /\ AKEM_OVERHEAD = POINT_LEN + MAC_LEN
        /\ Len(ak.out) = Len(ak.plaintext) + AKEM_OVERHEAD
        /\ (ak.pc = "done" /\ Len(ak.input) < AKEM_OVERHEAD) => ak.result.kind = "None"

C17_Witness ==
    /\ ak.version = "mac"
    /\ ak.pc = "done"
    /\ ak.kind = "short"
    /\ Len(ak.plaintext) = MaxPlain
    /\ Len(ak.out) = MaxPlain + AKEM_OVERHEAD
    /\ Len(ak.input) = AKEM_OVERHEAD - 1
    /\ ak.result.kind = "None"

\* C18: a changed bit in any part of the ciphertext (the encrypted ephemeral
\* public key, the commitment point, the signature point, the encrypted
\* plaintext, the MAC) makes decapsulate return None, and decapsulate
\* returns Some only when every check in it passes, which is only for the
\* ciphertext as it was made.
C18_Tampered ==
    /\ (ak.pc = "done" /\ ak.kind = "flipped") => ak.result.kind = "None"
    /\ (ak.pc = "done" /\ ak.result.kind = "Some") =>
           ak.kind = "honest" /\ ak.input = ak.out

C18_Witness ==
    /\ ak.pc = "done"
    /\ ak.kind = "flipped"
    /\ ak.version = "dv"
    /\ ak.at = 3 * POINT_LEN
    /\ Len(ak.plaintext) > 0
    /\ ak.result.kind = "None"

\* C19: when a Diffie-Hellman shared secret is the identity, the static one
\* or the ephemeral one, the operation is rejected: decapsulate returns a
\* failure value, nothing panics and the protocol is not keyed with the
\* identity.
C19_IdentityRejected ==
    (ak.pc = "done" /\ ak.result.identity) =>
        ak.result.kind = "None" /\ ~ak.result.keyed

\* C20: Digest::new depends on the order of the metadata and on the
\* message.  For distinct metadata values a and b, the digests of [a, b]
\* and of [b, a] with the same message differ; the digests of two distinct
\* messages with the same metadata differ; and the digests of equal inputs
\* are equal.
C20_DigestSensitive ==
    dg.pc = "done" =>
        /\ (dg.kind = "swapped" /\ dg.metadata[1] # dg.metadata[2]) => dg.a # dg.b
        /\ (dg.kind = "messages" /\ dg.message # dg.message2) => dg.a # dg.b
        /\ dg.kind = "same" => dg.a = dg.b

C20_Witness ==
    /\ dg.pc = "done"
    /\ dg.kind = "swapped"
    /\ dg.metadata = << <<"a">>, <<"a", "a">> >>
    /\ dg.message # <<>>
    /\ dg.a # dg.b

\* C21: string forms round trip.  Parsing the text a public key, a
\* signature or a digest is printed as gives back the value that was
\* printed, whatever its bytes are, leading zero bytes included.
C21_StringRoundTrip ==
    (sf.pc = "done" /\ sf.origin = "formatted") =>
        (sf.parsed.ok /\ sf.parsed.value = sf.value)
C21_Witness ==
    /\ sf.pc = "done" /\ sf.origin = "formatted" /\ sf.kind = "Signature"
    /\ sf.value = <<0, 5>> /\ sf.text = <<"1", "2", "3">>
    /\ sf.parsed.ok

\* C22: parsers reject malformed input.  A text that is the printed form of
\* no value of the kind (it has a character outside the alphabet, or its
\* bytes have the wrong length, or for a public key they are the encoding of
\* no point or of the identity) is refused with an error, and a text that
\* is accepted is the printed form of the value returned.
WellFormed(kind, s) == \E value \in StringValues(kind) : Format(kind, value) = s
C22_MalformedRejected ==
    sf.pc = "done" =>
        /\ ~WellFormed(sf.kind, sf.text) => ~sf.parsed.ok
        /\ sf.parsed.ok => /\ sf.parsed.value \in StringValues(sf.kind)
                           /\ Format(sf.kind, sf.parsed.value) = sf.text
C22_Witness ==
    /\ sf.pc = "done" /\ sf.origin = "given" /\ sf.kind = "PublicKey"
    /\ sf.text = <<"1">> /\ ~sf.parsed.ok

\* C23: SecretKey round trip.  For every secret, passphrase and cost
\* parameters the output of encrypt is SECRET_KEY_LEN + pbenc::OVERHEAD long,
\* and decrypt of it with the same passphrase returns a secret key with the
\* same root private key.
C23_SecretKeyRoundTrip ==
    /\ sk.pc # "encrypt" => Len(sk.out) = SECRET_KEY_LEN + PBENC_OVERHEAD
    /\ (sk.pc = "done" /\ sk.kind = "honest") =>
           (sk.ok /\ root_key(sk.key) = root_key(sk.r))
C23_Witness ==
    /\ sk.pc = "done" /\ sk.kind = "honest" /\ sk.ok /\ sk.key = sk.r
    /\ Len(sk.input) = SECRET_KEY_LEN + PBENC_OVERHEAD

\* C24: SecretKey::decrypt failures.  An input of any other length is
\* refused with InvalidCiphertext before pbenc::decrypt is called, and an
\* input that does not unseal (another passphrase, a changed byte) is
\* refused with InvalidCiphertext; neither gives a secret key.
C24_DecryptFails ==
    sk.pc = "done" =>
        /\ Len(sk.input) # SECRET_KEY_LEN + PBENC_OVERHEAD =>
               (~sk.ok /\ sk.err = "InvalidCiphertext" /\ ~sk.attempted /\ sk.key = <<>>)
        /\ sk.kind \in {"passphrase", "flipped"} =>
               (~sk.ok /\ sk.err = "InvalidCiphertext" /\ sk.attempted /\ sk.key = <<>>)
C24_Witness ==
    /\ sk.pc = "done" /\ sk.kind = "flipped" /\ sk.input[1] = Flip(sk.out[1])
    /\ ~sk.ok /\ sk.attempted
C24_WitnessLength ==
    sk.pc = "done" /\ sk.kind = "long" /\ ~sk.ok /\ ~sk.attempted

\* C25: hedge leaves the caller's duplex unchanged.  What the caller
\* squeezes after hedge is what it would have squeezed from the state
\* before the call, and the clone is that state with the secret and then
\* the random bytes absorbed, which is what the closure is given.
C25_HedgeFrame ==
    hg.pc = "hedged" =>
        /\ hg.self = hg.before
        /\ hg.out = Squeezed(hg.before, NONCE_LEN)
        /\ hg.clone = hg.before \o << <<"absorb", hg.secret>>, <<"absorb", hg.random>> >>
        /\ hg.value = Closure(hg.f, hg.clone)
C25_Witness ==
    /\ hg.pc = "hedged" /\ hg.f = "triple" /\ hg.self = hg.before
    /\ Len(hg.clone) = Len(hg.before) + 2 /\ hg.value # hg.out

\* C26: hedged values are unique per message when the RNG fails.  Two
\* calls of mres::encrypt by one sender in which the RNG returns the same
\* bytes give two different plaintexts different ephemeral private keys,
\* DEKs and nonces.
C26_UniquePerMessage ==
    (/\ hg.pc = "both"
     /\ hg.a.ds = hg.b.ds /\ hg.a.rnd = hg.b.rnd
     /\ hg.a.plaintext # hg.b.plaintext) =>
        /\ hg.a.ephemeral # hg.b.ephemeral
        /\ hg.a.dek # hg.b.dek
        /\ hg.a.nonce # hg.b.nonce

\* C27: I/O failures are surfaced.  When the caller's writer returned an
\* error on a write of the output of PrivateKey::encrypt or decrypt, the
\* call returns the error, and a call that returns Ok(count) has delivered
\* all count bytes to the caller's writer.
C27_IoSurfaced ==
    io.pc = "done" =>
        /\ io.failed => io.result = "Err(io)"
        /\ io.result = "Ok(count)" => io.sink = io.count

\* C28: designated-verifier signatures.  verify returns true for the
\* signature sign made, given the verifier's key pair, the signer's public
\* key and the message, and false when exactly one of the verifier's
\* private key, the verifier's public key, the signer's public key, the
\* message or a half of the signature is another value.  (A signature whose
\* scalar s is zero, which happens with negligible probability, has the
\* identity as its second half for every verifier and is left aside for the
\* verifier's private key.)
C28_Dvsig ==
    dvs.pc = "done" =>
        /\ dvs.kind = "honest" => dvs.result
        /\ dvs.kind \in {"q_v", "q_s", "m", "sig1", "sig2"} => ~dvs.result
        /\ (dvs.kind = "d_v" /\ dvs.s # 0) => ~dvs.result
C28_Witness ==
    /\ dvs.pc = "done" /\ dvs.kind = "d_v" /\ dvs.s # 0 /\ ~dvs.result
    /\ dvs.given.dv # dvs.dv /\ dvs.given.sig = dvs.sig
C28_WitnessHonest == dvs.pc = "done" /\ dvs.kind = "honest" /\ dvs.result

\* C29: streaming signatures do not depend on the chunking.  A signature of
\* a message the Signer was fed in one sequence of write calls verifies with
\* a Verifier fed the same bytes in any sequence of write calls (and does
\* not verify with a Verifier fed other bytes).
C29_Chunking ==
    sw.pc = "done" => (sw.result <=> sw.vm = sw.m)
C29_Witness ==
    /\ sw.pc = "done" /\ sw.result /\ Len(sw.m) = MaxStream
    /\ sw.schunks = <<2, 1>> /\ sw.vchunks = <<1, 0, 2>>

\* C31: header-scan transcript parity.  On an honest cipher text, when the
\* header loop of decrypt_header ends, the receiver's duplex is the
\* sender's duplex after it wrote all headers, at whichever index the
\* receiver's header is: every iteration squeezed a nonce and absorbed the
\* header as read, before and after the one that decrypted.
HeadersScanned == pc = "headers" /\ ~(hi < recv_count)
C31_ScanParity ==
    (scen.kind = "honest" /\ HeadersScanned) =>
        (hdr.found /\ hi = Len(msg.receivers) /\ dx = msg.hdx)
C31_Witness ==
    /\ scen.kind = "honest" /\ HeadersScanned /\ dx = msg.hdx
    /\ Len(msg.receivers) = MaxRecv /\ hdr.at = 1
C31_WitnessLast ==
    /\ scen.kind = "honest" /\ HeadersScanned /\ dx = msg.hdx
    /\ Len(msg.receivers) = MaxRecv /\ hdr.at = MaxRecv

\* C32: headers and padding consumed.  On an honest cipher text for n
\* receivers the header loop ends after exactly n header blocks, whichever
\* header decrypted first and also when the receiver is listed several
\* times (the first header that decrypts is the one used); exactly the
\* padding the header declares is then read before the first block.
FirstIndex(q, list) == CHOOSE i \in 1 .. Len(list) :
                           list[i] = q /\ \A j \in 1 .. (i - 1) : list[j] # q
PaddingConsumed == pc = "message" /\ trace.blocks = <<>>
C32_HeadersConsumed ==
    scen.kind = "honest" =>
        /\ HeadersScanned =>
               /\ hi = Len(msg.receivers)
               /\ rd = NONCE_LEN + Len(msg.receivers) * ENC_HEADER_LEN
               /\ hdr.found /\ hdr.at = FirstIndex(keys.qr, msg.receivers)
        /\ PaddingConsumed =>
               /\ hdr.padding = msg.padding
               /\ rd = NONCE_LEN + Len(msg.receivers) * ENC_HEADER_LEN + msg.padding
C32_Witness ==
    /\ scen.kind = "honest" /\ PaddingConsumed /\ msg.padding = MaxPad
    /\ Len(msg.receivers) = MaxRecv /\ msg.receivers[1] = msg.receivers[MaxRecv]
    /\ hdr.at = 1
    /\ rd = NONCE_LEN + MaxRecv * ENC_HEADER_LEN + MaxPad

\* C33: decrypt terminates on every finite input, whatever receiver count a
\* header that decrypts declares: a started decrypt reaches its return, and
\* a header loop that meets the end of the input before its bound returns
\* InvalidCiphertext.
EndedInHeaderLoop == pc = "done" /\ hi < recv_count
C33_Terminates ==
    (pc = "nonce") ~>
        (pc = "done" /\ (EndedInHeaderLoop => result.kind = "InvalidCiphertext"))
C33_Witness ==
    /\ EndedInHeaderLoop
    /\ scen.kind = "honest"
    /\ msg.count = U64_MAX
    /\ hdr.found
    /\ recv_count = U64_MAX
    /\ hi > Len(msg.receivers)
    /\ result.kind = "InvalidCiphertext"
\* C34: the cipher text is the nonce, one encrypted header per receiver, the
\* padding, floor(L / BLOCK_LEN) sealed blocks of BLOCK_LEN + TAG_LEN bytes,
\* exactly one final sealed block of (L mod BLOCK_LEN) + TAG_LEN bytes (a
\* bare tag when L is a multiple of BLOCK_LEN) and the signature, in this
\* order and with nothing else, so that its length is NONCE_LEN
\* + n * ENC_HEADER_LEN + padding + L + TAG_LEN * (floor(L / BLOCK_LEN) + 1)
\* + SIGNATURE_LEN.
HeadersEnd == NONCE_LEN + Len(msg.receivers) * ENC_HEADER_LEN
BodyStart == HeadersEnd + msg.padding
FullBlocks == msg.len \div BLOCK_LEN
TextLen(k) == IF k <= FullBlocks THEN BLOCK_LEN ELSE msg.len % BLOCK_LEN
\* Block k of the body seals bytes (k - 1) * BLOCK_LEN + 1 .. of the
\* plaintext: their cipher text, then a tag.
IsSealedBlock(block, k) ==
    /\ Len(block) = TextLen(k) + TAG_LEN
    /\ \A j \in 1 .. Len(block) :
        IF j <= TextLen(k)
        THEN /\ block[j][1] = "enc"
             /\ block[j][3] = j
             /\ block[j][4] = Plaintext(msg.len)[(k - 1) * BLOCK_LEN + j]
        ELSE block[j][1] = "tag" /\ block[j][3] = j - TextLen(k)
IsHeader(block) ==
    /\ Len(block) = ENC_HEADER_LEN
    /\ \A j \in 1 .. Len(block) :
        IF j <= POINT_LEN THEN block[j][1] = "enc" /\ block[j][4] = Pt(msg.qe)
        ELSE IF j <= POINT_LEN + HEADER_LEN THEN block[j][1] = "enc"
        ELSE block[j][1] = "tag"
IsSignature(block) ==
    /\ Len(block) = SIGNATURE_LEN
    /\ \A j \in 1 .. Len(block) :
        /\ block[j][1] = "enc"
        /\ block[j][4][1] = (IF j <= POINT_LEN THEN "pt" ELSE "sc")
C34_Framing ==
    pc # "encrypt" =>
        /\ Len(msg.out) = BodyStart + msg.len + TAG_LEN * (FullBlocks + 1)
                            + SIGNATURE_LEN
        /\ SubSeq(msg.out, 1, NONCE_LEN) = HedgedNonce
        /\ \A i \in 1 .. Len(msg.receivers) :
            IsHeader(SubSeq(msg.out, NONCE_LEN + (i - 1) * ENC_HEADER_LEN + 1,
                            NONCE_LEN + i * ENC_HEADER_LEN))
        /\ SubSeq(msg.out, HeadersEnd + 1, BodyStart) = RandomBytes(msg.padding)
        /\ \A k \in 1 .. (FullBlocks + 1) :
            IsSealedBlock(SubSeq(msg.out,
                                 BodyStart + (k - 1) * ENC_BLOCK_LEN + 1,
                                 BodyStart + (k - 1) * ENC_BLOCK_LEN
                                    + TextLen(k) + TAG_LEN), k)
        /\ IsSignature(SubSeq(msg.out, Len(msg.out) - SIGNATURE_LEN + 1,
                              Len(msg.out)))
C34_Witness ==
    /\ pc = "deliver"
    /\ msg.len = 2 * BLOCK_LEN
    /\ msg.padding = MaxPad
    /\ Len(msg.receivers) = MaxRecv
    /\ Len(msg.out) = BodyStart + 2 * ENC_BLOCK_LEN + TAG_LEN + SIGNATURE_LEN
    /\ msg.out[Len(msg.out) - SIGNATURE_LEN][1] = "tag"
    /\ msg.out[Len(msg.out) - SIGNATURE_LEN - TAG_LEN][1] = "tag"
\* C35: on an honest cipher text decrypt_message unseals blocks with the
\* boundaries of the blocks the encryptor sealed (never a byte of the last
\* SIGNATURE_LEN bytes), for every plaintext length, and when it has
\* returned, it has unsealed all of them and has handed the last
\* SIGNATURE_LEN bytes of the stream to the signature verification.
SealedBlocks == [k \in 1 .. (FullBlocks + 1) |-> TextLen(k) + TAG_LEN]
IsPrefix(a, b) == Len(a) <= Len(b) /\ a = SubSeq(b, 1, Len(a))
C35_SlidingWindow ==
    scen.kind = "honest" =>
        /\ IsPrefix(trace.blocks, SealedBlocks)
        /\ pc = "done" =>
            /\ trace.blocks = SealedBlocks
            /\ trace.sig = SubSeq(ct, Len(ct) - SIGNATURE_LEN + 1, Len(ct))
            /\ wout = Plaintext(msg.len)
\* C36: in the array-buffer decrypt_message, on an honest cipher text, every
\* read that returns bytes returns at least SIGNATURE_LEN of them, so that
\* n - SIGNATURE_LEN + offset does not go below zero at the subtraction, and
\* the block length lies between TAG_LEN and ENC_BLOCK_LEN.
NextRead == Min(Avail, BUF_LEN - offset)
C36_NoUnderflow ==
    (scen.kind = "honest" /\ msg.api = "mres" /\ pc = "message" /\ NextRead > 0) =>
        /\ NextRead >= SIGNATURE_LEN
        /\ TAG_LEN <= NextRead - SIGNATURE_LEN + offset
        /\ NextRead - SIGNATURE_LEN + offset <= ENC_BLOCK_LEN
\* C37: in the ratcheting variant, encrypt_message ratchets once after every
\* sealed block, the final short one included, and decrypt_message once
\* after every unsealed block: while blocks are decrypted every seal step of
\* the receiver's duplex is followed by a ratchet, and when the signature is
\* verified the receiver's duplex is the sender's at the time it signed,
\* with one seal and one ratchet per block.
Count(S, kind) == Cardinality({i \in DOMAIN S : S[i][1] = kind})
RatchetsFollowSeals(S) ==
    \A i \in DOMAIN S :
        S[i][1] = "tag" => (i < Len(S) /\ S[i + 1][1] = "ratchet")
C37_RatchetParity ==
    (scen.kind = "honest" /\ msg.api = "facade") =>
        /\ pc \in {"message", "verify"} =>
            /\ Count(dx, "ratchet") = Len(trace.blocks)
            /\ Count(dx, "tag") = Len(trace.blocks)
            /\ RatchetsFollowSeals(dx)
        /\ pc = "verify" =>
            /\ dx = msg.mdx
            /\ Count(msg.mdx, "ratchet") = FullBlocks + 1
            /\ Count(msg.mdx, "tag") = FullBlocks + 1
C37_Witness ==
    /\ scen.kind = "honest"
    /\ msg.api = "facade"
    /\ pc = "verify"
    /\ msg.len >= BLOCK_LEN
    /\ Count(dx, "ratchet") = FullBlocks + 1
    /\ FullBlocks >= 1
    /\ dx = msg.mdx
\* C38: sign_protocol and verify_protocol apply the same operations to the
\* protocol, in the same order: the commitment is processed, then the
\* challenge derived, then the proof scalar processed.  For a signature of
\* sign_protocol from the same starting state the verifier derives the
\* signer's challenge and both end in the same state.
ProtocolOps(S, start, sig) ==
    S = start \o << <<"crypt", Take(sig, POINT_LEN)>>,
                    <<"squeeze", CHALLENGE_LEN>>,
                    <<"crypt", Drop(sig, POINT_LEN)>> >>
C38_SameOperations ==
    /\ sg.pc # "sign" =>
        /\ ProtocolOps(sg.sdx, SchnorrInit(Mul(sg.d, G), sg.message), sg.sig)
        /\ sg.chal = [st |-> SubSeq(sg.sdx, 1, Len(sg.sdx) - 2), r |-> sg.r]
    /\ sg.pc = "done" =>
        ProtocolOps(sg.vdx, SchnorrInit(sg.vq, sg.vmessage), sg.vsig)
    /\ (sg.pc = "done" /\ sg.kind = "honest") =>
        /\ sg.rp = sg.r
        /\ sg.vdx = sg.sdx
C38_Witness ==
    /\ sg.pc = "done"
    /\ sg.kind = "honest"
    /\ sg.message # <<>>
    /\ sg.r # 0
    /\ sg.rp = sg.r
    /\ sg.vdx = sg.sdx
    /\ Len(sg.vdx) = Len(SchnorrInit(sg.vq, sg.vmessage)) + 3
\* C39: derive_scalar adds an offset only for labels that are not empty: a
\* key id with consecutive delimiters derives what the key id with single
\* delimiters derives ("a//b" as "a/b"), and delimiters before and after
\* the key id do not change the result.
RECURSIVE Collapse(_)
Collapse(s) ==
    IF s = <<>> THEN <<>>
    ELSE IF Len(s) >= 2 /\ s[1] = KEY_ID_DELIM /\ s[2] = KEY_ID_DELIM
         THEN Collapse(Tail(s))
    ELSE <<s[1]>> \o Collapse(Tail(s))
C39_EmptyLabels ==
    (sd.pc = "derived" /\ sd.kind = "one") =>
        /\ sd.scalar = DeriveScalar(sd.h, sd.d, Collapse(sd.key_id))
        /\ sd.scalar = DeriveScalar(sd.h, sd.d, <<KEY_ID_DELIM>> \o sd.key_id)
        /\ sd.scalar = DeriveScalar(sd.h, sd.d, sd.key_id \o <<KEY_ID_DELIM>>)
\* C40: in scaldf the offset of a label depends on the label alone, so the
\* order of the labels does not matter: derive_scalar and derive_point of a
\* key id give what they give for the key id with its labels in the
\* opposite order ("a/b" and "b/a"), for every scalar and all labels.
RECURSIVE JoinLabels(_)
JoinLabels(labels) ==
    IF labels = <<>> THEN <<>>
    ELSE IF Len(labels) = 1 THEN labels[1]
    ELSE labels[1] \o <<KEY_ID_DELIM>> \o JoinLabels(Tail(labels))
Reversed(labels) == [i \in 1 .. Len(labels) |-> labels[Len(labels) + 1 - i]]
OppositeOrder(key_id) == JoinLabels(Reversed(LabelsOf(key_id)))
C40_OrderIndependent ==
    (sd.pc = "derived" /\ sd.kind = "one") =>
        /\ LabelsOf(OppositeOrder(sd.key_id)) = Reversed(LabelsOf(sd.key_id))
        /\ sd.scalar = DeriveScalar(sd.h, sd.d, OppositeOrder(sd.key_id))
        /\ sd.point = DerivePoint(sd.h, Mul(sd.d, G), OppositeOrder(sd.key_id))
C40_Witness ==
    /\ sd.pc = "derived"
    /\ sd.kind = "one"
    /\ sd.key_id = <<"a", "/", "b">>
    /\ OppositeOrder(sd.key_id) = <<"b", "/", "a">>
    /\ sd.h[<<"a">>] # sd.h[<<"b">>]
    /\ sd.d # 0
    /\ sd.scalar = DeriveScalar(sd.h, sd.d, <<"b", "/", "a">>)
    /\ sd.scalar = Add(sd.d, Add(sd.h[<<"a">>], sd.h[<<"b">>]))
====
